---- MODULE Spec2Model ----
(***************************************************************************)
(* Model of the mention enrichment pipeline of mention-mind-aws            *)
(* (src/src/api/mention_processor.py).                                     *)
(*                                                                         *)
(* A Python str is modelled as a sequence of one-character strings, so     *)
(* that splitting, pattern matching, URL parsing and ISO date parsing are  *)
(* computed character by character, as the code and the library routines   *)
(* it calls compute them.  A Python dict is modelled as a record that has   *)
(* one slot per key the pipeline ever reads or writes, plus the set `keys` *)
(* of the keys that are actually present; an absent key's slot holds the   *)
(* default of its type and is never read by the code.                      *)
(***************************************************************************)
EXTENDS Integers, Sequences, FiniteSets, TLC

VARIABLES
    op,         \* the call that was made last: "none", "process_mention", "process_mentions"
    passed,     \* the list of dicts exactly as the caller passed them (snapshot before the call)
    mentions,   \* the same dict objects after the call (process_mention writes into its argument)
    outcome,    \* how the call ended: returned value or raised exception
    clock,          \* what time.time() and datetime.now() answer, in whole seconds
    table,          \* the items of the DynamoDB table of MentionDatabase
    rate_limiter,   \* the fields of the RateLimiter object
    token_manager,  \* the fields of the TokenManager object
    auth,           \* the fields of the Auth object
    sent,           \* the HTTP requests sent so far, oldest first
    proceeded       \* the instants at which wait_if_needed returned, oldest first

\* the variables of the collaborators of the pipeline
collaborators == << clock, table, rate_limiter, token_manager, auth, sent, proceeded >>

vars == << op, passed, mentions, outcome, clock, table, rate_limiter, token_manager, auth, sent,
           proceeded >>

\* no collaborator has been constructed
NoCollaborators ==
    /\ clock = 0
    /\ table = {}
    /\ rate_limiter = << >>
    /\ token_manager = << >>
    /\ auth = << >>
    /\ sent = << >>
    /\ proceeded = << >>

(***************************************************************************)
(* Characters                                                              *)
(***************************************************************************)
LowerLetters ==
    << "a","b","c","d","e","f","g","h","i","j","k","l","m",
       "n","o","p","q","r","s","t","u","v","w","x","y","z" >>

UpperLetters ==
    << "A","B","C","D","E","F","G","H","I","J","K","L","M",
       "N","O","P","Q","R","S","T","U","V","W","X","Y","Z" >>

Digits == << "0","1","2","3","4","5","6","7","8","9" >>

Range(s) == { s[i] : i \in DOMAIN s }

IsLower(c) == c \in Range(LowerLetters)
IsUpper(c) == c \in Range(UpperLetters)
IsAlpha(c) == IsLower(c) \/ IsUpper(c)
IsDigit(c) == c \in Range(Digits)

\* int(c) for a decimal digit c
DigitVal(c) == (CHOOSE i \in DOMAIN Digits : Digits[i] = c) - 1

\* str.lower() on one character
LowerChar(c) ==
    IF IsUpper(c)
    THEN LowerLetters[CHOOSE i \in DOMAIN UpperLetters : UpperLetters[i] = c]
    ELSE c

\* str.lower()
Lower(s) == [ i \in DOMAIN s |-> LowerChar(s[i]) ]

\* the characters str.split() with no argument treats as separators
Whitespace == { " ", "\t", "\n", "\r", "\f" }

\* the characters the regular expression class \w matches
IsWordChar(c) == IsAlpha(c) \/ IsDigit(c) \/ c = "_"

(***************************************************************************)
(* String helpers                                                          *)
(***************************************************************************)
\* s[i:] with a 1-based i
Drop(s, i) == SubSeq(s, i, Len(s))

\* s[:i-1] with a 1-based i
Take(s, i) == SubSeq(s, 1, i - 1)

\* 1-based index of the first character of s at or after `from` that lies in
\* the set cs; 0 if there is none (str.find, which answers -1)
FindFrom(s, cs, from) ==
    LET hits == { i \in DOMAIN s : i >= from /\ s[i] \in cs }
    IN  IF hits = {} THEN 0 ELSE CHOOSE i \in hits : \A j \in hits : i <= j

Find(s, cs) == FindFrom(s, cs, 1)

\* 1-based index of the last character of s that equals c; 0 if none (str.rfind)
RFind(s, c) ==
    LET hits == { i \in DOMAIN s : s[i] = c }
    IN  IF hits = {} THEN 0 ELSE CHOOSE i \in hits : \A j \in hits : i >= j

\* s.startswith(p)
StartsWith(s, p) == Len(s) >= Len(p) /\ SubSeq(s, 1, Len(p)) = p

\* s with every character of the set cs removed (str.replace(b, "") for each b)
RECURSIVE Remove(_, _)
Remove(s, cs) ==
    IF s = << >> THEN << >>
    ELSE IF Head(s) \in cs THEN Remove(Tail(s), cs)
    ELSE << Head(s) >> \o Remove(Tail(s), cs)

\* sep.join(parts)
RECURSIVE Join(_, _)
Join(parts, sep) ==
    IF parts = << >> THEN << >>
    ELSE IF Len(parts) = 1 THEN parts[1]
    ELSE parts[1] \o sep \o Join(Tail(parts), sep)

\* str.split(): the maximal runs of non-whitespace characters, in order
RECURSIVE Split(_)
Split(s) ==
    IF s = << >> THEN << >>
    ELSE IF Head(s) \in Whitespace THEN Split(Tail(s))
    ELSE LET stop == Find(s, Whitespace)
         IN  IF stop = 0 THEN << s >>
             ELSE << Take(s, stop) >> \o Split(Drop(s, stop))

\* str.replace(old, new) for a one-character old
RECURSIVE Replace(_, _, _)
Replace(s, old, new) ==
    IF s = << >> THEN << >>
    ELSE IF Head(s) = old THEN new \o Replace(Tail(s), old, new)
    ELSE << Head(s) >> \o Replace(Tail(s), old, new)

\* all sequences over the set S of length at most n
RECURSIVE SeqsUpTo(_, _)
SeqsUpTo(S, n) ==
    IF n = 0 THEN { << >> }
    ELSE LET shorter == SeqsUpTo(S, n - 1)
         IN  shorter \cup { Append(s, c) : s \in shorter, c \in S }

(***************************************************************************)
(* Python dicts                                                            *)
(***************************************************************************)
\* a dict with no key; every slot holds the default of its type
EmptyDict ==
    [ keys            |-> {},
      id              |-> << >>,
      text            |-> << >>,
      source          |-> << >>,
      url             |-> << >>,
      author          |-> << >>,
      date            |-> << >>,
      status          |-> << >>,
      hashtags        |-> << >>,
      mentioned_users |-> << >>,
      search_text     |-> << >>,
      mention_type    |-> << >>,
      project_id      |-> << >>,
      processed_at    |-> 0,
      sentiment       |-> "",
      language        |-> "" ]

\* k in d
Has(d, k) == k \in d.keys

\* d[k] = v
Put(d, k, v) == [ d EXCEPT !.keys = @ \cup {k}, ![k] = v ]

(***************************************************************************)
(* How a call ends                                                         *)
(***************************************************************************)
Returned(v) == [ kind |-> "returned", exc |-> "", msg |-> "", value |-> v ]

Raised(e, m) == [ kind |-> "raised", exc |-> e, msg |-> m, value |-> << >> ]

(***************************************************************************)
(* MentionProcessor.__init__: the compiled patterns                        *)
(***************************************************************************)
\* the character range $-_ of the url pattern's third alternative
DollarToUnderscore ==
    { "$","%","&","'","(",")","*","+",",","-",".","/",
      "0","1","2","3","4","5","6","7","8","9",":",";","<","=",">","?","@",
      "A","B","C","D","E","F","G","H","I","J","K","L","M",
      "N","O","P","Q","R","S","T","U","V","W","X","Y","Z",
      "[","\\","]","^","_" }

\* one repetition of the url pattern's group: [a-zA-Z] | [0-9] | [$-_@.&+] |
\* [!*(),]; the last alternative, %XX, starts with a character of $-_ and so
\* adds no string that the repetition does not already match
UrlClassChar(c) ==
    \/ IsAlpha(c)
    \/ IsDigit(c)
    \/ c \in DollarToUnderscore \cup { "@", ".", "&", "+" }
    \/ c \in { "!", "*", "(", ")", "," }

\* what is left of url after the prefix http:// or https://; <<"none">> if url
\* has neither prefix
AfterScheme(url) ==
    IF StartsWith(url, << "h","t","t","p","s",":","/","/" >>) THEN << "some", Drop(url, 9) >>
    ELSE IF StartsWith(url, << "h","t","t","p",":","/","/" >>) THEN << "some", Drop(url, 8) >>
    ELSE << "none", << >> >>

\* the url pattern with its group repeated * instead of +
url_pattern_match_star(url) == AfterScheme(url)[1] = "some"

\* self.url_pattern.match(url) is not None: re.match anchors the pattern at the
\* start of url only, so a prefix of url has to match
url_pattern_match(url) ==
    LET rest == AfterScheme(url)
    IN  /\ rest[1] = "some"
        /\ rest[2] # << >>
        /\ UrlClassChar(rest[2][1])

\* end (1-based, inclusive) of the maximal run of word characters starting at i
RECURSIVE RunEnd(_, _)
RunEnd(s, i) ==
    IF i + 1 <= Len(s) /\ IsWordChar(s[i + 1]) THEN RunEnd(s, i + 1) ELSE i

\* re.compile(marker + r"(\w+)").findall(text) scanning from position p: the
\* matches are found left to right and do not overlap
RECURSIVE FindAllFrom(_, _, _)
FindAllFrom(text, marker, p) ==
    IF p > Len(text) THEN << >>
    ELSE IF text[p] = marker /\ p + 1 <= Len(text) /\ IsWordChar(text[p + 1])
    THEN LET e == RunEnd(text, p + 1)
         IN  << SubSeq(text, p + 1, e) >> \o FindAllFrom(text, marker, e + 1)
    ELSE FindAllFrom(text, marker, p + 1)

(***************************************************************************)
(* urllib.parse.urlparse, as _clean_url calls it                           *)
(***************************************************************************)
scheme_chars == Range(LowerLetters) \cup Range(UpperLetters) \cup Range(Digits) \cup { "+", "-", "." }

uses_params == { << "h","t","t","p" >>, << "h","t","t","p","s" >> }

\* _splitparams(path): [path, params]
splitparams(path) ==
    LET i == IF RFind(path, "/") > 0 THEN FindFrom(path, {";"}, RFind(path, "/"))
             ELSE Find(path, {";"})
    IN  IF i = 0 THEN [ path |-> path, params |-> << >> ]
        ELSE [ path |-> Take(path, i), params |-> Drop(path, i + 1) ]

\* str.split(c, 1) where the code keeps both parts: s up to the first c, and
\* what follows it (both are s and the empty string if c is not in s)
SplitAt(s, c) ==
    LET i == Find(s, {c})
    IN  IF i = 0 THEN [ head |-> s, tail |-> << >> ]
        ELSE [ head |-> Take(s, i), tail |-> Drop(s, i + 1) ]

\* urlsplit's scheme step: url[:i].lower() and url[i+1:] if the characters
\* before the first colon spell a scheme, else no scheme and url
SplitScheme(url) ==
    LET i == Find(url, {":"})
    IN  IF /\ i > 1
           /\ IsAlpha(url[1])
           /\ \A j \in 1 .. (i - 1) : url[j] \in scheme_chars
        THEN [ scheme |-> Lower(Take(url, i)), url |-> Drop(url, i + 1) ]
        ELSE [ scheme |-> << >>, url |-> url ]

\* urlsplit's netloc step: if url[:2] == '//' then _splitnetloc(url, 2), which
\* ends the netloc at the first of / ? #
SplitNetloc(url) ==
    LET delim == FindFrom(url, { "/", "?", "#" }, 3)
    IN  IF ~StartsWith(url, << "/", "/" >>) THEN [ netloc |-> << >>, url |-> url ]
        ELSE IF delim = 0 THEN [ netloc |-> Drop(url, 3), url |-> << >> ]
        ELSE [ netloc |-> SubSeq(url, 3, delim - 1), url |-> Drop(url, delim) ]

\* the SplitResult, given the scheme, the netloc, the url split at its first ?
\* and the fragment; error is TRUE where urlsplit raises
\* ValueError("Invalid IPv6 URL"): one of [ and ] is in the netloc without the
\* other
SplitResult(scheme, netloc, q, fragment) ==
    [ scheme |-> scheme, netloc |-> netloc, path |-> q.head,
      query |-> q.tail, fragment |-> fragment,
      error |-> ("[" \in Range(netloc)) # ("]" \in Range(netloc)) ]

\* urlsplit from the fragment step on, f being the url split at its first #
SplitAfterFragment(scheme, netloc, f) ==
    SplitResult(scheme, netloc, SplitAt(f.head, "?"), f.tail)

\* urlsplit from the netloc step on
SplitAfterNetloc(scheme, n) == SplitAfterFragment(scheme, n.netloc, SplitAt(n.url, "#"))

\* urlsplit from the scheme step on
SplitAfterScheme(s) == SplitAfterNetloc(s.scheme, SplitNetloc(s.url))

\* urlsplit(url): the tab, carriage return and newline characters are removed,
\* then the scheme, the netloc, the fragment and the query are split off
urlsplit(url) == SplitAfterScheme(SplitScheme(Remove(url, { "\t", "\r", "\n" })))

\* urlparse's own step: the parameters of the last path segment are split off
\* for the schemes that use them
ParseResult(sp) ==
    IF sp.scheme \in uses_params /\ ";" \in Range(sp.path)
    THEN [ sp EXCEPT !.path = splitparams(sp.path).path ]
    ELSE sp

urlparse(url) == ParseResult(urlsplit(url))

(***************************************************************************)
(* datetime.fromisoformat, as _validate_date calls it                      *)
(*                                                                         *)
(* The grammar modelled is YYYY-MM-DD[*HH[:MM[:SS]][(+|-)HH:MM[:SS]]],     *)
(* with the range checks the datetime constructor makes.                   *)
(***************************************************************************)
AllDigits(s) == \A i \in DOMAIN s : IsDigit(s[i])

\* int(s) for a string of two digits
TwoDigits(s) == 10 * DigitVal(s[1]) + DigitVal(s[2])

FourDigits(s) ==
    1000 * DigitVal(s[1]) + 100 * DigitVal(s[2]) + 10 * DigitVal(s[3]) + DigitVal(s[4])

IsLeap(y) == y % 4 = 0 /\ (y % 100 # 0 \/ y % 400 = 0)

DaysInMonth(y, m) ==
    IF m = 2 THEN (IF IsLeap(y) THEN 29 ELSE 28)
    ELSE IF m \in { 4, 6, 9, 11 } THEN 30
    ELSE 31

\* YYYY-MM-DD naming a day of the calendar
ParsesAsDate(s) ==
    /\ Len(s) = 10
    /\ s[5] = "-" /\ s[8] = "-"
    /\ AllDigits(SubSeq(s, 1, 4)) /\ AllDigits(SubSeq(s, 6, 7)) /\ AllDigits(SubSeq(s, 9, 10))
    /\ FourDigits(SubSeq(s, 1, 4)) >= 1
    /\ TwoDigits(SubSeq(s, 6, 7)) \in 1 .. 12
    /\ TwoDigits(SubSeq(s, 9, 10))
           \in 1 .. DaysInMonth(FourDigits(SubSeq(s, 1, 4)), TwoDigits(SubSeq(s, 6, 7)))

\* HH[:MM[:SS]] with the first component below `hours`
ParsesAsClock(s, hours) ==
    /\ Len(s) \in { 2, 5, 8 }
    /\ \A i \in DOMAIN s : IF i \in { 3, 6 } THEN s[i] = ":" ELSE IsDigit(s[i])
    /\ TwoDigits(SubSeq(s, 1, 2)) < hours
    /\ Len(s) >= 5 => TwoDigits(SubSeq(s, 4, 5)) < 60
    /\ Len(s) >= 8 => TwoDigits(SubSeq(s, 7, 8)) < 60

\* HH[:MM[:SS]][(+|-)HH:MM[:SS]]
ParsesAsTime(s) ==
    LET sign == Find(s, { "+", "-" })
    IN  IF sign = 0 THEN ParsesAsClock(s, 24)
        ELSE /\ ParsesAsClock(Take(s, sign), 24)
             /\ Len(Drop(s, sign + 1)) \in { 5, 8 }
             /\ ParsesAsClock(Drop(s, sign + 1), 24)

\* datetime.fromisoformat(s) returns (TRUE) or raises ValueError (FALSE)
fromisoformat(s) ==
    /\ Len(s) >= 10
    /\ ParsesAsDate(SubSeq(s, 1, 10))
    /\ Len(s) > 10 => (Len(s) >= 12 /\ ParsesAsTime(Drop(s, 12)))

(***************************************************************************)
(* MentionProcessor                                                        *)
(***************************************************************************)
\* the required fields in the other order a maintainer could list them in
required_fields_date_first == << "date", "text", "source", "url", "author", "status" >>

required_fields == << "text", "source", "url", "author", "date", "status" >>

\* the loop over required_fields: the field the loop stops at, "" if it runs
\* to its end
RECURSIVE FirstMissingFrom(_, _)
FirstMissingFrom(mention, i) ==
    IF i > Len(required_fields) THEN ""
    ELSE IF ~Has(mention, required_fields[i]) THEN required_fields[i]
    ELSE FirstMissingFrom(mention, i + 1)

\* str.replace("  ", " "): the pairs of spaces are found left to right and do
\* not overlap
RECURSIVE ReplacePairs(_)
ReplacePairs(s) ==
    IF Len(s) < 2 THEN s
    ELSE IF s[1] = " " /\ s[2] = " " THEN << " " >> \o ReplacePairs(Drop(s, 3))
    ELSE << s[1] >> \o ReplacePairs(Tail(s))

\* _clean_text written as text.replace("  ", " ")
clean_text_replace_pairs(text) == ReplacePairs(text)

\* str.strip()
RECURSIVE Strip(_)
Strip(s) ==
    IF s = << >> THEN s
    ELSE IF s[1] \in Whitespace THEN Strip(Tail(s))
    ELSE IF s[Len(s)] \in Whitespace THEN Strip(Take(s, Len(s)))
    ELSE s

\* _clean_text written as text.strip()
clean_text_strip_only(text) == Strip(text)

clean_text(text) == Join(Split(text), << " " >>)

\* f"{parsed.scheme}://{parsed.netloc}{parsed.path}", or the ValueError urlparse
\* raised
Reconstruct(parsed) ==
    IF parsed.error THEN Raised("ValueError", "Invalid IPv6 URL")
    ELSE Returned(parsed.scheme \o << ":", "/", "/" >> \o parsed.netloc \o parsed.path)

\* the reconstruction with the query string kept
ReconstructWithQuery(parsed) ==
    IF parsed.error THEN Raised("ValueError", "Invalid IPv6 URL")
    ELSE Returned(parsed.scheme \o << ":", "/", "/" >> \o parsed.netloc \o parsed.path
                  \o (IF parsed.query = << >> THEN << >> ELSE << "?" >> \o parsed.query))

\* _clean_url keeping the query string
clean_url_keeping_query(url) ==
    IF ~url_pattern_match(url) THEN Raised("ValidationError", "Invalid URL format")
    ELSE ReconstructWithQuery(urlparse(url))

clean_url(url) ==
    IF ~url_pattern_match(url) THEN Raised("ValidationError", "Invalid URL format")
    ELSE Reconstruct(urlparse(url))

validate_date(date) ==
    IF fromisoformat(Replace(date, "Z", << "+","0","0",":","0","0" >>))
    THEN Returned(date)
    ELSE Raised("ValidationError", "Invalid date format")

\* findall keeping only the first word character of each token
extract_hashtags_first_char(text) ==
    LET all == FindAllFrom(text, "#", 1)
    IN  [ i \in DOMAIN all |-> << all[i][1] >> ]

extract_hashtags(text) == FindAllFrom(text, "#", 1)

extract_mentions(text) == FindAllFrom(text, "@", 1)

generate_search_text(mention) ==
    Join(<< Lower(mention.text),
            Lower(mention.author),
            Join(mention.hashtags, << " " >>),
            Join(mention.mentioned_users, << " " >>) >>,
         << " " >>)

detect_language(text) == "unknown"

analyze_sentiment(text) == "neutral"

\* what process_mention answers when it reaches its return statement: the dict
\* it returns is its argument
Finish(mention) == [ mention |-> mention, outcome |-> Returned(<< mention >>) ]

\* the assignments of process_mention, one for each line of "Extract metadata"
SetHashtags(mention) == Put(mention, "hashtags", extract_hashtags(mention.text))

SetMentionedUsers(mention) == Put(mention, "mentioned_users", extract_mentions(mention.text))

SetSearchText(mention) == Put(mention, "search_text", generate_search_text(mention))

SetProcessedAt(mention, now) == Put(mention, "processed_at", now)

SetSentiment(mention) == Put(mention, "sentiment", analyze_sentiment(mention.text))

\* the language line written as mention.setdefault("language", ...)
SetLanguage_setdefault(mention) ==
    IF Has(mention, "language") THEN mention
    ELSE Put(mention, "language", detect_language(mention.text))

SetLanguage(mention) == Put(mention, "language", detect_language(mention.text))

\* process_mention from "Extract metadata" on
ExtractMetadata(mention, now) ==
    Finish(SetLanguage(SetSentiment(SetProcessedAt(
        SetSearchText(SetMentionedUsers(SetHashtags(mention))), now))))

\* mention["date"] = d, or the exception d is
AssignDate(mention, d, now) ==
    IF d.kind = "raised" THEN [ mention |-> mention, outcome |-> d ]
    ELSE ExtractMetadata(Put(mention, "date", d.value), now)

\* mention["url"] = u, or the exception u is; then the date
AssignUrl(mention, u, now) ==
    IF u.kind = "raised" THEN [ mention |-> mention, outcome |-> u ]
    ELSE AssignDate(Put(mention, "url", u.value), validate_date(mention.date), now)

\* process_mention from "Clean and validate fields" on, the text being cleaned
AssignText(mention, now) == AssignUrl(mention, clean_url(mention.url), now)

\* process_mention(mention) with datetime.now() answering `now`: the dict
\* after the call (the code assigns into its argument) and how the call ends
process_mention(mention, now) ==
    IF FirstMissingFrom(mention, 1) # ""
    THEN [ mention |-> mention,
           outcome |-> Raised("ValidationError",
                              "Missing required field: " \o FirstMissingFrom(mention, 1)) ]
    ELSE AssignText(Put(mention, "text", clean_text(mention.text)), now)

\* process_mentions(mentions): the list comprehension calls process_mention on
\* the elements in order, from element i on, and stops at the first that raises.
\* done holds the elements already processed, stamps[i] is what datetime.now()
\* answers during the i-th call
RECURSIVE process_mentions_from(_, _, _, _, _)
process_mentions_from(list, stamps, i, done, results) ==
    IF i > Len(list) THEN [ mentions |-> done, outcome |-> Returned(results) ]
    ELSE LET r == process_mention(list[i], stamps[i])
         IN  IF r.outcome.kind = "raised"
             THEN [ mentions |-> done \o << r.mention >> \o SubSeq(list, i + 1, Len(list)),
                    outcome  |-> r.outcome ]
             ELSE process_mentions_from(list, stamps, i + 1,
                                        Append(done, r.mention), Append(results, r.mention))

\* the elements of s from last to first
Reverse(s) == [ i \in 1 .. Len(s) |-> s[Len(s) + 1 - i] ]

\* process_mentions collecting its results with insert(0, ...)
process_mentions_reversed(list, stamps) ==
    [ mentions |-> process_mentions_from(list, stamps, 1, << >>, << >>).mentions,
      outcome  |-> [ process_mentions_from(list, stamps, 1, << >>, << >>).outcome
                       EXCEPT !.value = Reverse(@) ] ]

process_mentions(list, stamps) == process_mentions_from(list, stamps, 1, << >>, << >>)

(***************************************************************************)
(* Bounds                                                                  *)
(***************************************************************************)
\* longest text drawn over TextAlphabet
MaxTextLen == 4

\* longest part drawn over UrlAlphabet that follows a url's prefix
MaxUrlTail == 3

\* longest list passed to process_mentions
MaxBatch == 2

\* latest instant datetime.now() answers
MaxClock == 2

(***************************************************************************)
(* The records callers pass                                                *)
(***************************************************************************)
TextAlphabet == { " ", "\n", "#", "@", "a", "B" }

UrlAlphabet == { "a", "/", "?", "#", ";", "[", "\t" }

Clock == 1 .. MaxClock

\* the texts of tests/api/test_mention_processor.py
TextAwesome ==
    << "C","h","e","c","k"," ","o","u","t"," ","t","h","i","s"," ","#","a","w","e","s","o","m","e",
       " ","p","r","o","d","u","c","t","!"," ","@","j","o","h","n","d","o","e" >>

TextSpaces ==
    << " "," ","M","u","l","t","i","p","l","e"," "," "," "," ","s","p","a","c","e","s"," "," "," ",
       "a","n","d","\n","n","e","w","l","i","n","e","s","\r","\n" >>

TextFirst == << "F","i","r","s","t"," ","#","t","e","s","t"," ","m","e","n","t","i","o","n" >>

TextTest == << "T","e","s","t"," ","m","e","n","t","i","o","n" >>

Texts == SeqsUpTo(TextAlphabet, MaxTextLen) \cup { TextAwesome, TextSpaces, TextFirst, TextTest }

\* the urls of the tests
UrlBareHttp == << "h","t","t","p",":","/","/" >>

UrlBareHttps == << "h","t","t","p","s",":","/","/" >>

UrlNoScheme == << "e","x","a","m","p","l","e",".","c","o","m","/","p","a","g","e" >>

UrlExample == << "h","t","t","p","s",":","/","/","e","x","a","m","p","l","e",".","c","o","m" >>

UrlExamplePage ==
    << "h","t","t","p","s",":","/","/","e","x","a","m","p","l","e",".","c","o","m","/","p","a","g","e" >>

UrlTwitter ==
    << "h","t","t","p","s",":","/","/","t","w","i","t","t","e","r",".","c","o","m",
       "/","u","s","e","r","/","s","t","a","t","u","s","/","1","2","3" >>

UrlPrefixes == { UrlBareHttp, UrlBareHttps, << >> }

Urls ==
    { p \o t : p \in UrlPrefixes, t \in SeqsUpTo(UrlAlphabet, MaxUrlTail) }
        \cup { UrlNoScheme, UrlExample, UrlExamplePage, UrlTwitter }

\* the dates of the tests, and dates that name no instant
DateNoon == << "2","0","2","4","-","0","1","-","0","1","T","1","2",":","0","0",":","0","0","Z" >>

DateInvalid == << "i","n","v","a","l","i","d","-","d","a","t","e" >>

Dates ==
    { DateNoon, DateInvalid,
      << "2","0","2","4","-","0","1","-","0","1","T","0","0",":","0","0",":","0","0","Z" >>,
      << "2","0","2","4","-","0","1","-","0","1" >>,
      << "2","0","2","4","-","0","1","-","0","1","T","1","2",":","0","0" >>,
      << "2","0","2","4","-","1","3","-","0","1","T","1","2",":","0","0",":","0","0","Z" >>,
      << "2","0","2","4","-","0","2","-","3","0" >>,
      << "2","0","2","4","-","0","2","-","2","9" >>,
      << "2","0","2","3","-","0","2","-","2","9" >>,
      << "2","0","2","4","-","0","1","-","0","1","T","2","5",":","0","0",":","0","0" >>,
      << "Z" >>,
      << >> }

\* the source labels of the tests, and one that holds two of the words
SourceTwitter == << "t","w","i","t","t","e","r" >>

Sources ==
    { SourceTwitter,
      << "n","e","w","s"," ","a","r","t","i","c","l","e" >>,
      << "p","r","o","d","u","c","t"," ","r","e","v","i","e","w" >>,
      << "t","e","s","t" >>,
      << "T","w","i","t","t","e","r"," ","N","e","w","s" >> }

AuthorJane == << "j","a","n","e","d","o","e" >>

Authors == { AuthorJane, << "B","o","b" >>, << >> }

StatusNew == << "n","e","w" >>

IdMention == << "m","e","n","t","i","o","n","1","2","3" >>

\* the keys a raw record may carry
InputKeys == { "id", "text", "source", "url", "author", "date", "status" }

\* the dict holding, of the seven values, those whose key is in keys
Mention(keys, text, source, url, author, date) ==
    [ EmptyDict EXCEPT
        !.keys   = keys,
        !.id     = IF "id" \in keys THEN IdMention ELSE << >>,
        !.text   = IF "text" \in keys THEN text ELSE << >>,
        !.source = IF "source" \in keys THEN source ELSE << >>,
        !.url    = IF "url" \in keys THEN url ELSE << >>,
        !.author = IF "author" \in keys THEN author ELSE << >>,
        !.date   = IF "date" \in keys THEN date ELSE << >>,
        !.status = IF "status" \in keys THEN StatusNew ELSE << >> ]

\* records with any set of keys
RecordsByKeys ==
    { Mention(keys, TextFirst, source, url, AuthorJane, date) :
        keys \in SUBSET InputKeys,
        source \in { SourceTwitter, << "t","e","s","t" >> },
        url \in { UrlTwitter, UrlBareHttp, UrlNoScheme },
        date \in { DateNoon, DateInvalid } }

\* records with every key, one value varied over its whole set
RecordsByUrl ==
    { Mention(InputKeys, TextFirst, SourceTwitter, url, AuthorJane, date) :
        url \in Urls, date \in { DateNoon } }

RecordsByText ==
    { Mention(InputKeys, text, SourceTwitter, UrlTwitter, AuthorJane, DateNoon) : text \in Texts }

RecordsByDate ==
    { Mention(InputKeys, TextAwesome, SourceTwitter, url, AuthorJane, date) :
        url \in { UrlExample, UrlBareHttp }, date \in Dates }

RecordsBySource ==
    { Mention(InputKeys \ ids, TextAwesome, source, UrlExample, author, DateNoon) :
        ids \in { {}, {"id"} }, source \in Sources, author \in Authors }

\* a url the pattern accepts and urlparse rejects with ValueError
UrlBracket == UrlBareHttps \o << "[" >>

\* a url of the tests with a query string
UrlExampleQuery == UrlExamplePage \o << "?", "q" >>

\* records with every key whose text or url the cleaning changes, and whose
\* url or date may be invalid
RecordsByFailure ==
    { Mention(InputKeys, text, SourceTwitter, url, AuthorJane, date) :
        text \in { TextSpaces, TextTest },
        url \in { UrlExampleQuery, UrlExample, UrlBareHttp, UrlBracket },
        date \in { DateNoon, DateInvalid } }

\* records that already carry a language and a sentiment, as a record that went
\* through another enrichment would
RecordsEnriched ==
    { Put(Put(m, "language", "en"), "sentiment", "positive") :
        m \in { Mention(InputKeys, text, SourceTwitter, UrlExample, AuthorJane, DateNoon) :
                  text \in { TextAwesome, TextFirst } } }

MentionInputs ==
    RecordsByKeys \cup RecordsByUrl \cup RecordsByText \cup RecordsByDate \cup RecordsBySource
        \cup RecordsByFailure \cup RecordsEnriched

\* the records process_mentions is called with
BatchRecords ==
    { Mention(InputKeys, TextFirst, SourceTwitter, UrlTwitter, AuthorJane, DateNoon),
      Mention(InputKeys, TextSpaces, SourceTwitter, UrlExamplePage, AuthorJane, DateNoon),
      Mention(InputKeys, TextAwesome, SourceTwitter, UrlExample, AuthorJane, DateNoon),
      Mention({ "id", "text", "date", "source" }, TextFirst, SourceTwitter, << >>, << >>, DateNoon),
      Mention(InputKeys, TextTest, SourceTwitter, UrlBareHttp, AuthorJane, DateNoon),
      Mention(InputKeys, TextTest, SourceTwitter, UrlExample, AuthorJane, DateInvalid),
      Mention(InputKeys, TextSpaces, SourceTwitter, UrlBracket, AuthorJane, DateNoon) }

BatchInputs == SeqsUpTo(BatchRecords, MaxBatch)

\* the instants datetime.now() answers during the calls of a batch: time does
\* not run backwards
Stamps(n) == { st \in [ 1 .. n -> Clock ] : \A i \in 1 .. n, j \in 1 .. n : i <= j => st[i] <= st[j] }

(***************************************************************************)
(* The state machine: a caller holds records and makes one call            *)
(***************************************************************************)
Init ==
    /\ \/ op = "process_mention"  /\ passed \in { << m >> : m \in MentionInputs }
       \/ op = "process_mentions" /\ passed \in BatchInputs
    /\ mentions = passed
    /\ outcome = [ kind |-> "none", exc |-> "", msg |-> "", value |-> << >> ]
    /\ NoCollaborators

\* processor.process_mention(mentions[0])
ProcessMention ==
    /\ op = "process_mention"
    /\ outcome.kind = "none"
    /\ \E now \in Clock :
          LET r == process_mention(mentions[1], now)
          IN  /\ mentions' = << r.mention >>
              /\ outcome' = r.outcome
    /\ UNCHANGED << op, passed >>
    /\ UNCHANGED collaborators

\* processor.process_mentions(mentions)
ProcessMentions ==
    /\ op = "process_mentions"
    /\ outcome.kind = "none"
    /\ \E stamps \in Stamps(Len(mentions)) :
          LET r == process_mentions(mentions, stamps)
          IN  /\ mentions' = r.mentions
              /\ outcome' = r.outcome
    /\ UNCHANGED << op, passed >>
    /\ UNCHANGED collaborators

\* processor.process_mention(mentions[0]) once more, on the record the first
\* call returned (the same dict)
ProcessMentionAgain ==
    /\ op = "process_mention"
    /\ outcome.kind = "returned"
    /\ \E now \in Clock :
          /\ mentions[1].processed_at <= now
          /\ mentions' = << process_mention(mentions[1], now).mention >>
          /\ outcome' = process_mention(mentions[1], now).outcome
    /\ op' = "process_mention_again"
    /\ UNCHANGED passed
    /\ UNCHANGED collaborators

Next == ProcessMention \/ ProcessMentions \/ ProcessMentionAgain

Spec == Init /\ [][Next]_vars

(***************************************************************************)
(* CSVProcessor: the rows csv.DictReader yields are turned into records and *)
(* passed one by one to process_mention                                      *)
(***************************************************************************)
\* most rows of a file
MaxRows == 3

SourceReddit == << "r","e","d","d","i","t" >>

ProjectId == << "p","1" >>

\* a row of the file. The Twitter export names the columns ID, Title, Snippet,
\* URL, Account Name, Date added and Status; hasID tells whether the header has
\* the ID column
Row(title, snippet, url, date_added) ==
    [ hasID      |-> TRUE,
      id         |-> IdMention,
      project_id |-> ProjectId,
      source     |-> SourceReddit,
      title      |-> title,
      snippet    |-> snippet,
      url        |-> url,
      author     |-> AuthorJane,
      date_added |-> date_added,
      status     |-> StatusNew ]

RowValid == Row(TextTest, << >>, UrlExample, DateNoon)

RowWithSnippet == Row(TextFirst, TextTest, UrlExamplePage, DateNoon)

RowBadDate == Row(TextAwesome, << >>, UrlExample, DateInvalid)

RowBracketUrl == Row(TextTest, TextFirst, UrlBracket, DateNoon)

CsvRows == { RowValid, RowWithSnippet, RowBadDate, RowBracketUrl }

\* the files: every row of a file has the columns of the header
RedditFiles == SeqsUpTo(CsvRows, MaxRows)

TwitterFiles ==
    { [ i \in DOMAIN f |-> [ f[i] EXCEPT !.hasID = h ] ] :
        f \in SeqsUpTo(CsvRows, MaxRows), h \in BOOLEAN }

\* the title, followed by a newline and the snippet when the snippet is not empty
RowText(row) ==
    IF row.snippet # << >> THEN row.title \o << "\n" >> \o row.snippet ELSE row.title

\* str(datetime.now().timestamp()) at the whole second `now`
TimestampText(now) == << Digits[now + 1], ".", "0" >>

\* the dict process_reddit_csv builds from a row
RedditMention(row) ==
    [ EmptyDict EXCEPT
        !.keys       = { "id", "project_id", "source", "text", "url", "author", "date", "status" },
        !.id         = row.id,
        !.project_id = row.project_id,
        !.source     = row.source,
        !.text       = RowText(row),
        !.url        = row.url,
        !.author     = row.author,
        !.date       = row.date_added,
        !.status     = row.status ]

\* the dict process_twitter_csv builds from a row, datetime.now() answering idnow
TwitterMention(row, idnow) ==
    [ EmptyDict EXCEPT
        !.keys   = { "id", "source", "text", "url", "author", "date", "status" },
        !.id     = IF row.hasID THEN row.id
                   ELSE << "t","w","i","t","t","e","r","_" >> \o TimestampText(idnow),
        !.source = SourceTwitter,
        !.text   = RowText(row),
        !.url    = row.url,
        !.author = row.author,
        !.date   = row.date_added,
        !.status = row.status ]

\* try: mentions.append(process_mention(mention)) except Exception: print(...)
\* r is how process_mention ended
AppendProcessed(mentions_, r) ==
    IF r.outcome.kind = "returned" THEN Append(mentions_, r.mention) ELSE mentions_

\* the loop of process_reddit_csv from row i on; stamps[i] is what
\* datetime.now() answers while row i is processed
RECURSIVE process_reddit_csv_from(_, _, _, _)
process_reddit_csv_from(rows, stamps, i, mentions_) ==
    IF i > Len(rows) THEN mentions_
    ELSE process_reddit_csv_from(rows, stamps, i + 1,
             AppendProcessed(mentions_, process_mention(RedditMention(rows[i]), stamps[i])))

\* the loop with the try statement around it: the first failure ends it
RECURSIVE process_reddit_csv_until_failure(_, _, _, _)
process_reddit_csv_until_failure(rows, stamps, i, mentions_) ==
    IF i > Len(rows) THEN mentions_
    ELSE IF process_mention(RedditMention(rows[i]), stamps[i]).outcome.kind = "raised"
    THEN mentions_
    ELSE process_reddit_csv_until_failure(rows, stamps, i + 1,
             AppendProcessed(mentions_, process_mention(RedditMention(rows[i]), stamps[i])))

process_reddit_csv_try_around_loop(rows, stamps) ==
    process_reddit_csv_until_failure(rows, stamps, 1, << >>)

process_reddit_csv(rows, stamps) == process_reddit_csv_from(rows, stamps, 1, << >>)

\* the loop of process_twitter_csv: datetime.now() is called twice for a row,
\* for the default of the id (stamps[2i-1]) and for processed_at (stamps[2i])
RECURSIVE process_twitter_csv_from(_, _, _, _)
process_twitter_csv_from(rows, stamps, i, mentions_) ==
    IF i > Len(rows) THEN mentions_
    ELSE process_twitter_csv_from(rows, stamps, i + 1,
             AppendProcessed(mentions_,
                 process_mention(TwitterMention(rows[i], stamps[2 * i - 1]), stamps[2 * i])))

process_twitter_csv(rows, stamps) == process_twitter_csv_from(rows, stamps, 1, << >>)

\* the instants n successive calls of datetime.now() answer, none before `from`
RECURSIVE Instants(_, _)
Instants(n, from) ==
    IF n = 0 THEN { << >> }
    ELSE UNION { { << t >> \o rest : rest \in Instants(n - 1, t) } : t \in from .. MaxClock }

\* a caller holds the rows of a file and makes one import; mentions is the
\* list the import collects
InitCsv ==
    /\ \/ op = "process_reddit_csv"  /\ passed \in RedditFiles
       \/ op = "process_twitter_csv" /\ passed \in TwitterFiles
    /\ mentions = << >>
    /\ outcome = [ kind |-> "none", exc |-> "", msg |-> "", value |-> << >> ]
    /\ NoCollaborators

ProcessRedditCsv ==
    /\ op = "process_reddit_csv"
    /\ outcome.kind = "none"
    /\ \E stamps \in Instants(Len(passed), 1) :
          /\ mentions' = process_reddit_csv(passed, stamps)
          /\ outcome' = Returned(mentions')
    /\ UNCHANGED << op, passed >>
    /\ UNCHANGED collaborators

ProcessTwitterCsv ==
    /\ op = "process_twitter_csv"
    /\ outcome.kind = "none"
    /\ \E stamps \in Instants(2 * Len(passed), 1) :
          /\ mentions' = process_twitter_csv(passed, stamps)
          /\ outcome' = Returned(mentions')
    /\ UNCHANGED << op, passed >>
    /\ UNCHANGED collaborators

NextCsv == ProcessRedditCsv \/ ProcessTwitterCsv

SpecCsv == InitCsv /\ [][NextCsv]_vars

(***************************************************************************)
(* sanitize_text of import_real_mentions.py. A string is the sequence of    *)
(* the code points of its characters                                        *)
(***************************************************************************)
\* longest string passed to sanitize_text
MaxChars == 3

\* the code points the ascii codec can encode are those below this one
AsciiLimit == 128

\* ord("?"), what errors='replace' encodes an unencodable character as
QuestionMark == 63

\* tab, newline, space, "?", "a", "~", DEL, U+0080, e acute, the euro sign
CodePoints == { 9, 10, 32, 63, 97, 126, 127, 128, 233, 8364 }

\* the argument: None or a string
SanitizeInputs ==
    { [ isNone |-> TRUE, chars |-> << >> ] }
        \cup { [ isNone |-> FALSE, chars |-> c ] : c \in SeqsUpTo(CodePoints, MaxChars) }

\* text.encode('ascii', errors='replace').decode('ascii')
EncodeReplace(chars) ==
    [ i \in DOMAIN chars |-> IF chars[i] < AsciiLimit THEN chars[i] ELSE QuestionMark ]

\* text.encode('ascii', errors='ignore').decode('ascii')
RECURSIVE EncodeIgnore(_)
EncodeIgnore(chars) ==
    IF chars = << >> THEN << >>
    ELSE IF chars[1] < AsciiLimit THEN << chars[1] >> \o EncodeIgnore(Tail(chars))
    ELSE EncodeIgnore(Tail(chars))

\* sanitize_text written with errors='ignore'
sanitize_text_ignore(text) ==
    IF text.isNone \/ text.chars = << >> THEN << >> ELSE EncodeIgnore(text.chars)

\* sanitize_text(text): "" for None and for the empty string, otherwise the
\* string encoded to ascii and decoded back
sanitize_text(text) ==
    IF text.isNone \/ text.chars = << >> THEN << >> ELSE EncodeReplace(text.chars)

InitSanitize ==
    /\ op = "sanitize_text"
    /\ passed \in { << t >> : t \in SanitizeInputs }
    /\ mentions = passed
    /\ outcome = [ kind |-> "none", exc |-> "", msg |-> "", value |-> << >> ]
    /\ NoCollaborators

\* sanitize_text(passed[0]): the try statement catches every Exception, so the
\* call returns
SanitizeText ==
    /\ op = "sanitize_text"
    /\ outcome.kind = "none"
    /\ outcome' = Returned(<< sanitize_text(passed[1]) >>)
    /\ UNCHANGED << op, passed, mentions >>
    /\ UNCHANGED collaborators

NextSanitize == SanitizeText

SpecSanitize == InitSanitize /\ [][NextSanitize]_vars

(***************************************************************************)
(* MentionDatabase (src/database.py) and the DynamoDB table it writes to.   *)
(* table is the set of the items of the table, at most one for a key        *)
(* (mention_id, timestamp).  A mention_id is modelled by a number.          *)
(***************************************************************************)
\* longest list passed to batch_store_mentions
MaxMentions == 51

\* batch_size of batch_store_mentions
batch_size == 25

\* the number of buffered requests at which boto3's BatchWriter sends them
flush_amount == 25

\* timedelta(days=30), in days and the seconds of a day
ttl_days == 30

SecondsPerDay == 86400

DbKeys == { "mention_id", "timestamp", "source", "content", "url", "author", "sentiment" }

\* a mention as the importers build it; wellformed tells whether it has the
\* content key
DbMention(mention_id, timestamp, content, wellformed) ==
    [ keys       |-> IF wellformed THEN DbKeys ELSE DbKeys \ { "content" },
      mention_id |-> mention_id,
      timestamp  |-> timestamp,
      source     |-> "reddit",
      content    |-> content,
      url        |-> "https://reddit.com/test",
      author     |-> "test_user",
      sentiment  |-> "positive" ]

\* building the item raises KeyError: a key read with mention[...] is absent
ItemRaises(mention) ==
    ~({ "mention_id", "timestamp", "source", "content" } \subseteq mention.keys)

\* the item store_mention and batch_store_mentions build from a mention at the
\* instant at
Item(mention, at) ==
    [ mention_id |-> mention.mention_id,
      timestamp  |-> mention.timestamp,
      source     |-> mention.source,
      content    |-> mention.content,
      url        |-> IF "url" \in mention.keys THEN mention.url ELSE "",
      author     |-> IF "author" \in mention.keys THEN mention.author ELSE "",
      sentiment  |-> IF "sentiment" \in mention.keys THEN mention.sentiment ELSE "neutral",
      ttl        |-> at + ttl_days * SecondsPerDay ]

SameKey(a, b) == a.mention_id = b.mention_id /\ a.timestamp = b.timestamp

\* the table after PutItem: the item replaces the one with its key
PutItem(items, item) == { x \in items : ~SameKey(x, item) } \cup { item }

RECURSIVE PutItems(_, _)
PutItems(items, requests) ==
    IF requests = << >> THEN items
    ELSE PutItems(PutItem(items, Head(requests)), Tail(requests))

\* BatchWriter._flush: the buffer is emptied and sent as one batch_write_item
\* request, the one numbered acc.flushes + 1; the request fails when its
\* number is in fails, and then nothing of it is written
Flush(acc, fails) ==
    [ acc EXCEPT
        !.buffer  = << >>,
        !.flushes = @ + 1,
        !.sent    = Append(@, [ items |-> acc.buffer, ok |-> (acc.flushes + 1) \notin fails ]),
        !.table   = IF (acc.flushes + 1) \in fails THEN @ ELSE PutItems(@, acc.buffer),
        !.raised  = (acc.flushes + 1) \in fails ]

\* what the try statement around writer.put_item does with the mention, f
\* being the writer after put_item
AfterPut(f, mention) ==
    IF f.raised THEN [ f EXCEPT !.failed = Append(@, mention), !.raised = FALSE ]
    ELSE [ f EXCEPT !.successful = Append(@, mention) ]

\* writer.put_item(Item=item): the request joins the buffer, which is sent
\* when it holds flush_amount requests
WriterPut(acc, item, fails) ==
    IF Len(acc.buffer) + 1 >= flush_amount
    THEN Flush([ acc EXCEPT !.buffer = Append(@, item) ], fails)
    ELSE [ acc EXCEPT !.buffer = Append(@, item) ]

\* the body of the loop over a batch, for one mention
StoreInBatch(acc, mention, at, fails) ==
    IF ItemRaises(mention) THEN [ acc EXCEPT !.failed = Append(@, mention) ]
    ELSE AfterPut(WriterPut(acc, Item(mention, at), fails), mention)

\* BatchWriter.__exit__: what is left in the buffer is sent; an exception
\* leaves the with statement and ends batch_store_mentions
WriterExit(acc, fails) ==
    IF acc.buffer = << >> THEN acc
    ELSE [ Flush(acc, fails) EXCEPT !.aborted = Flush(acc, fails).raised ]

\* mentions[i : i + batch_size - 1]: a batch that leaves its last mention out
batch_one_short(list, start) ==
    SubSeq(list, start, IF start + batch_size - 2 < Len(list)
                        THEN start + batch_size - 2 ELSE Len(list))

\* batch = mentions[i : i + batch_size], start being i + 1
batch(list, start) ==
    SubSeq(list, start, IF start + batch_size - 1 < Len(list)
                        THEN start + batch_size - 1 ELSE Len(list))

\* the loop over the mentions of a batch, from its j-th mention on
RECURSIVE store_batch_from(_, _, _, _, _)
store_batch_from(acc, group, at, fails, j) ==
    IF j > Len(group) THEN acc
    ELSE store_batch_from(StoreInBatch(acc, group[j], at, fails), group, at, fails, j + 1)

\* the loop over the batches, from the batch that starts at start on; an
\* exception out of a with statement ends it
RECURSIVE batch_store_from(_, _, _, _, _)
batch_store_from(list, at, fails, start, acc) ==
    IF acc.aborted \/ start > Len(list) THEN acc
    ELSE batch_store_from(list, at, fails, start + batch_size,
             WriterExit(store_batch_from(acc, batch(list, start), at, fails, 1), fails))

\* batch_store_mentions(mentions) at the instant at, on a table holding items:
\* the table and the requests afterwards, and the lists the call has collected
batch_store_mentions(list, at, items, fails) ==
    batch_store_from(list, at, fails, 1,
        [ table |-> items, buffer |-> << >>, flushes |-> 0, sent |-> << >>,
          successful |-> << >>, failed |-> << >>, raised |-> FALSE, aborted |-> FALSE ])

\* what batch_store_mentions returns: the two lists, or ([], mentions) from
\* its outer except clause
BatchReturn(acc, list) ==
    IF acc.aborted THEN Returned(<< << >>, list >>)
    ELSE Returned(<< acc.successful, acc.failed >>)

\* most batch_write_item requests of a call
MaxFlushes == (MaxMentions + batch_size - 1) \div batch_size

\* the lists passed to batch_store_mentions: n mentions with the ids 1..n, of
\* which at most one lacks its content
MentionLists ==
    { [ i \in 1 .. n |-> DbMention(i, 1, "Test content", i # bad) ] :
        n \in 0 .. MaxMentions, bad \in 0 .. MaxMentions }

InitBatch ==
    /\ op = "batch_store_mentions"
    /\ passed \in MentionLists
    /\ mentions = passed
    /\ outcome = [ kind |-> "none", exc |-> "", msg |-> "", value |-> << >> ]
    /\ clock = 0
    /\ table = {}
    /\ rate_limiter = << >>
    /\ token_manager = << >>
    /\ auth = << >>
    /\ sent = << >>
    /\ proceeded = << >>

\* db.batch_store_mentions(mentions); the batch_write_item requests whose
\* number is in fails raise
BatchStoreMentions ==
    /\ op = "batch_store_mentions"
    /\ outcome.kind = "none"
    /\ \E fails \in SUBSET (1 .. MaxFlushes) :
          /\ table' = batch_store_mentions(mentions, clock, table, fails).table
          /\ sent' = batch_store_mentions(mentions, clock, table, fails).sent
          /\ outcome' = BatchReturn(batch_store_mentions(mentions, clock, table, fails), mentions)
    /\ UNCHANGED << op, passed, mentions, clock, rate_limiter, token_manager, auth, proceeded >>

NextBatch == BatchStoreMentions

SpecBatch == InitBatch /\ [][NextBatch]_vars

\* the latest day the clock reaches
MaxDays == 30

\* a call that returned v after logging the error m
Logged(v, m) == [ kind |-> "returned", exc |-> "", msg |-> m, value |-> v ]

\* the mentions passed to store_mention: two contents for one key, the same
\* mention_id at another timestamp, another mention_id, and a mention that
\* lacks its content
StoredMentions ==
    { DbMention(1, 1, "Test mention content", TRUE),
      DbMention(1, 1, "Content to delete", TRUE),
      DbMention(1, 2, "Test mention content", TRUE),
      DbMention(2, 1, "Test mention content", TRUE),
      DbMention(2, 1, "Test mention content", FALSE) }

\* the keys passed to get_mention and delete_mention
StoredKeys ==
    { [ mention_id |-> m.mention_id, timestamp |-> m.timestamp ] : m \in StoredMentions }

\* the items of the table with the key, none or one
GetItem(items, key) == { x \in items : SameKey(x, key) }

\* response.get("Item"): the item, or None (the empty sequence)
ItemOrNone(found) == IF found = {} THEN << >> ELSE << CHOOSE x \in found : TRUE >>

\* the table after DeleteItem with only the mention_id compared
DeleteItem_by_mention_id(items, key) == { x \in items : x.mention_id # key.mention_id }

\* the table after DeleteItem
DeleteItem(items, key) == { x \in items : ~SameKey(x, key) }

InitStore ==
    /\ op = "none"
    /\ passed = << >>
    /\ mentions = << >>
    /\ outcome = [ kind |-> "none", exc |-> "", msg |-> "", value |-> << >> ]
    /\ NoCollaborators

\* db.store_mention(mention); unavailable tells that the request to the table
\* raises
StoreMention ==
    \E mention \in StoredMentions, unavailable \in BOOLEAN :
        /\ op' = "store_mention"
        /\ passed' = << mention >>
        /\ IF ItemRaises(mention) \/ unavailable
           THEN /\ outcome' = Logged(<< FALSE >>, "Error storing mention")
                /\ table' = table
           ELSE /\ outcome' = Returned(<< TRUE >>)
                /\ table' = PutItem(table, Item(mention, clock))
        /\ UNCHANGED << mentions, clock, rate_limiter, token_manager, auth, sent, proceeded >>

\* db.get_mention(mention_id, timestamp)
GetMention ==
    \E key \in StoredKeys, unavailable \in BOOLEAN :
        /\ op' = "get_mention"
        /\ passed' = << key >>
        /\ outcome' = IF unavailable THEN Logged(<< >>, "Error retrieving mention")
                      ELSE Returned(ItemOrNone(GetItem(table, key)))
        /\ UNCHANGED << mentions, clock, table, rate_limiter, token_manager, auth, sent,
                        proceeded >>

\* db.delete_mention(mention_id, timestamp)
DeleteMention ==
    \E key \in StoredKeys, unavailable \in BOOLEAN :
        /\ op' = "delete_mention"
        /\ passed' = << key >>
        /\ IF unavailable
           THEN /\ outcome' = Logged(<< FALSE >>, "Error deleting mention")
                /\ table' = table
           ELSE /\ outcome' = Returned(<< TRUE >>)
                /\ table' = DeleteItem(table, key)
        /\ UNCHANGED << mentions, clock, rate_limiter, token_manager, auth, sent, proceeded >>

\* time passes; the table is looked at every half of the ttl
PassTime ==
    /\ clock + (ttl_days \div 2) * SecondsPerDay <= MaxDays * SecondsPerDay
    /\ clock' = clock + (ttl_days \div 2) * SecondsPerDay
    /\ op' = "pass_time"
    /\ UNCHANGED << passed, mentions, outcome, table, rate_limiter, token_manager, auth, sent,
                    proceeded >>

\* the table's time-to-live process deletes an item whose ttl has passed
\* (create_table enables TimeToLive on the attribute ttl)
ExpireItem ==
    \E x \in table :
        /\ x.ttl <= clock
        /\ table' = table \ { x }
        /\ op' = "expire_item"
        /\ UNCHANGED << passed, mentions, outcome, clock, rate_limiter, token_manager, auth,
                        sent, proceeded >>

NextStore == StoreMention \/ GetMention \/ DeleteMention \/ PassTime \/ ExpireItem

SpecStore == InitStore /\ [][NextStore]_vars

(***************************************************************************)
(* Auth (src/src/api/auth.py).  None is the empty sequence, a value v that  *)
(* may be None is << v >>.  sent logs each HTTP request with the response   *)
(* it got.                                                                   *)
(***************************************************************************)
\* the latest second the clock reaches
MaxTime == 3

\* most HTTP requests of a run
MaxRequests == 2

\* longest validity a token response announces, in seconds
MaxExpiresIn == 2

None == << >>

\* a response to a token request: failed tells that no response came
\* (requests raises a RequestException); data is the JSON object of the body,
\* with the set of its keys
TokenResponse(failed, status_code, keys, token, expires) ==
    [ failed      |-> failed,
      status_code |-> status_code,
      keys        |-> keys,
      token       |-> token,
      expires     |-> expires ]

NoResponse == TokenResponse(TRUE, 0, {}, "", 0)

\* the responses of the token endpoint of Auth
AuthResponses ==
    { NoResponse, TokenResponse(FALSE, 401, {}, "", 0), TokenResponse(FALSE, 500, {}, "", 0) }
        \cup { TokenResponse(FALSE, 200, keys,
                             IF "access_token" \in keys THEN token ELSE "",
                             IF "expires_in" \in keys THEN expires ELSE 0) :
                 keys \in SUBSET { "access_token", "expires_in" },
                 token \in { "test_token", "other_token" },
                 expires \in 1 .. MaxExpiresIn }

\* get_token with the token assigned before the response is checked
get_token_assigning_first(self, response, at) ==
    IF response.failed
    THEN [ self |-> self, outcome |-> Raised("AuthError", "Failed to get access token: error") ]
    ELSE IF response.status_code # 200
    THEN [ self |-> self, outcome |-> Raised("AuthError", "Failed to get access token: status") ]
    ELSE IF "access_token" \notin response.keys \/ "expires_in" \notin response.keys
    THEN [ self    |-> [ self EXCEPT !.access_token = << response.token >> ],
           outcome |-> Raised("AuthError", "Invalid token response") ]
    ELSE [ self    |-> [ access_token |-> << response.token >>,
                         token_expiry |-> << at + response.expires >> ],
           outcome |-> Returned(None) ]

\* Auth.get_token() when the token endpoint answers response: the fields of
\* the object afterwards and how the call ends
get_token(self, response, at) ==
    IF response.failed
    THEN [ self |-> self, outcome |-> Raised("AuthError", "Failed to get access token: error") ]
    ELSE IF response.status_code # 200
    THEN [ self |-> self, outcome |-> Raised("AuthError", "Failed to get access token: status") ]
    ELSE IF "access_token" \notin response.keys \/ "expires_in" \notin response.keys
    THEN [ self |-> self, outcome |-> Raised("AuthError", "Invalid token response") ]
    ELSE [ self    |-> [ access_token |-> << response.token >>,
                         token_expiry |-> << at + response.expires >> ],
           outcome |-> Returned(None) ]

\* Auth.get_auth_header()
get_auth_header(self) ==
    IF self.access_token = None THEN Raised("AuthError", "No access token available")
    ELSE Returned(<< "Bearer " \o self.access_token[1] >>)

\* Auth.is_token_expired()
is_token_expired(self, at) ==
    IF self.token_expiry = None THEN TRUE ELSE at >= self.token_expiry[1]

\* auth = Auth(client_id, client_secret)
InitAuth ==
    /\ op = "none"
    /\ passed = << >>
    /\ mentions = << >>
    /\ outcome = [ kind |-> "none", exc |-> "", msg |-> "", value |-> << >> ]
    /\ clock = 0
    /\ table = {}
    /\ rate_limiter = << >>
    /\ token_manager = << >>
    /\ auth = [ access_token |-> None, token_expiry |-> None ]
    /\ sent = << >>
    /\ proceeded = << >>

\* auth.get_token()
GetToken ==
    /\ Len(sent) < MaxRequests
    /\ \E response \in AuthResponses :
          /\ op' = "get_token"
          /\ passed' = << response >>
          /\ sent' = Append(sent, [ url |-> "/oauth/token", at |-> clock, response |-> response ])
          /\ auth' = get_token(auth, response, clock).self
          /\ outcome' = get_token(auth, response, clock).outcome
    /\ UNCHANGED << mentions, clock, table, rate_limiter, token_manager, proceeded >>

\* auth.get_auth_header()
GetAuthHeader ==
    /\ op' = "get_auth_header"
    /\ passed' = << >>
    /\ outcome' = get_auth_header(auth)
    /\ UNCHANGED << mentions, clock, table, rate_limiter, token_manager, auth, sent, proceeded >>

\* auth.refresh_token(): get_token() when the token is expired, nothing otherwise
RefreshToken ==
    /\ Len(sent) < MaxRequests
    /\ \E response \in AuthResponses :
          /\ op' = "refresh_token"
          /\ IF is_token_expired(auth, clock)
             THEN /\ passed' = << response >>
                  /\ sent' = Append(sent, [ url |-> "/oauth/token", at |-> clock,
                                            response |-> response ])
                  /\ auth' = get_token(auth, response, clock).self
                  /\ outcome' = get_token(auth, response, clock).outcome
             ELSE /\ passed' = << >>
                  /\ outcome' = Returned(None)
                  /\ UNCHANGED << auth, sent >>
    /\ UNCHANGED << mentions, clock, table, rate_limiter, token_manager, proceeded >>

\* a second passes
SecondPasses ==
    /\ clock < MaxTime
    /\ clock' = clock + 1
    /\ op' = "second_passes"
    /\ UNCHANGED << passed, mentions, outcome, table, rate_limiter, token_manager, auth, sent,
                    proceeded >>

NextAuth == GetToken \/ GetAuthHeader \/ RefreshToken \/ SecondPasses

SpecAuth == InitAuth /\ [][NextAuth]_vars

(***************************************************************************)
(* TokenManager (src/src/api/token_manager.py)                              *)
(***************************************************************************)
\* data.get("expiresIn", 3600)
DefaultExpiresIn == 3600

\* the responses of the token endpoint of TokenManager: response.ok is
\* status_code < 400
RefreshResponses ==
    { NoResponse, TokenResponse(FALSE, 401, {}, "", 0) }
        \cup { TokenResponse(FALSE, 200, keys,
                             IF "token" \in keys THEN token ELSE "",
                             IF "expiresIn" \in keys THEN expires ELSE DefaultExpiresIn) :
                 keys \in SUBSET { "token", "expiresIn" },
                 token \in { "test_token", "other_token" },
                 expires \in 1 .. MaxExpiresIn }

\* TokenManager._refresh_token(api_key) when the endpoint answers response
_refresh_token(self, response, at) ==
    IF response.failed
    THEN [ self |-> self, outcome |-> Raised("AuthError", "Failed to refresh token: error") ]
    ELSE IF response.status_code >= 400
    THEN [ self |-> self, outcome |-> Raised("AuthError", "Failed to refresh token: status") ]
    ELSE IF "token" \notin response.keys
    THEN [ self |-> self, outcome |-> Raised("KeyError", "token") ]
    ELSE [ self    |-> [ token        |-> << response.token >>,
                         token_expiry |-> << at + response.expires >> ],
           outcome |-> Returned(None) ]

\* the condition of get_auth_headers under which it refreshes
NeedsRefresh(self, at) ==
    \/ self.token = None
    \/ self.token_expiry # None /\ at >= self.token_expiry[1]

\* TokenManager.get_auth_headers(api_key): response answers the refresh
\* request if one is sent
get_auth_headers(self, response, at) ==
    IF NeedsRefresh(self, at) /\ _refresh_token(self, response, at).outcome.kind = "raised"
    THEN _refresh_token(self, response, at)
    ELSE IF NeedsRefresh(self, at)
    THEN [ self    |-> _refresh_token(self, response, at).self,
           outcome |-> Returned(<< "Bearer " \o response.token >>) ]
    ELSE [ self |-> self, outcome |-> Returned(<< "Bearer " \o self.token[1] >>) ]

\* token_manager = TokenManager(session, base_url)
InitToken ==
    /\ op = "none"
    /\ passed = << >>
    /\ mentions = << >>
    /\ outcome = [ kind |-> "none", exc |-> "", msg |-> "", value |-> << >> ]
    /\ clock = 0
    /\ table = {}
    /\ rate_limiter = << >>
    /\ token_manager = [ token |-> None, token_expiry |-> None ]
    /\ auth = << >>
    /\ sent = << >>
    /\ proceeded = << >>

\* token_manager.get_auth_headers(api_key)
GetAuthHeaders ==
    /\ NeedsRefresh(token_manager, clock) => Len(sent) < MaxRequests
    /\ \E response \in RefreshResponses :
          /\ op' = "get_auth_headers"
          /\ passed' = IF NeedsRefresh(token_manager, clock) THEN << response >> ELSE << >>
          /\ sent' = IF NeedsRefresh(token_manager, clock)
                     THEN Append(sent, [ url |-> "/auth/token", at |-> clock,
                                         response |-> response ])
                     ELSE sent
          /\ token_manager' = get_auth_headers(token_manager, response, clock).self
          /\ outcome' = get_auth_headers(token_manager, response, clock).outcome
    /\ UNCHANGED << mentions, clock, table, rate_limiter, auth, proceeded >>

NextToken == GetAuthHeaders \/ SecondPasses

SpecToken == InitToken /\ [][NextToken]_vars

(***************************************************************************)
(* RateLimiter (src/src/api/client.py).  Times are whole seconds;           *)
(* proceeded logs the time at which each wait_if_needed returned.           *)
(***************************************************************************)
\* largest limit of calls a RateLimiter is built with
MaxCalls == 2

\* longest period a RateLimiter is built with, in seconds
MaxPeriod == 2

\* most calls of wait_if_needed of a run
MaxWaits == 3

\* [ts for ts in self.timestamps if now - ts <= self.period]
Recent(timestamps, period, at) ==
    SelectSeq(timestamps, LAMBDA ts : at - ts <= period)

\* sleep_time of wait_if_needed, 0 when it does not sleep
sleep_time(self, at) ==
    IF /\ Len(Recent(self.timestamps, self.period, at)) >= self.calls
       /\ Recent(self.timestamps, self.period, at)[1] + self.period - at > 0
    THEN Recent(self.timestamps, self.period, at)[1] + self.period - at
    ELSE 0

\* RateLimiter.wait_if_needed(): the object once the call has returned
wait_if_needed(self, at) ==
    [ self EXCEPT !.timestamps = Append(Recent(self.timestamps, self.period, at), at) ]

\* rate_limiter = RateLimiter(calls, period)
InitRate ==
    /\ op = "none"
    /\ passed = << >>
    /\ mentions = << >>
    /\ outcome = [ kind |-> "none", exc |-> "", msg |-> "", value |-> << >> ]
    /\ clock = 0
    /\ table = {}
    /\ \E calls \in 1 .. MaxCalls, period \in 1 .. MaxPeriod :
          rate_limiter = [ calls |-> calls, period |-> period, timestamps |-> << >> ]
    /\ token_manager = << >>
    /\ auth = << >>
    /\ sent = << >>
    /\ proceeded = << >>

\* rate_limiter.wait_if_needed(): time.sleep(sleep_time) returns after
\* sleep_time seconds or later
WaitIfNeeded ==
    /\ Len(proceeded) < MaxWaits
    /\ clock + sleep_time(rate_limiter, clock) <= MaxTime
    /\ op' = "wait_if_needed"
    /\ passed' = << >>
    /\ rate_limiter' = wait_if_needed(rate_limiter, clock)
    /\ \E woken \in clock + sleep_time(rate_limiter, clock) .. MaxTime :
          /\ sleep_time(rate_limiter, clock) = 0 => woken = clock
          /\ clock' = woken
          /\ proceeded' = Append(proceeded, woken)
    /\ outcome' = Returned(None)
    /\ UNCHANGED << mentions, table, token_manager, auth, sent >>

NextRate == WaitIfNeeded \/ SecondPasses

SpecRate == InitRate /\ [][NextRate]_vars

(***************************************************************************)
(* MentionMindClient (src/src/api/client.py).  sent logs the token         *)
(* requests and the API requests of the session, proceeded the times at    *)
(* which the rate limiter let a request through.                           *)
(***************************************************************************)
NonZeroDigits == Range(Digits) \ { "0" }

\* the regular expression of %m: 1[0-2]|0[1-9]|[1-9]
MatchesMonth(s) ==
    \/ Len(s) = 2 /\ s[1] = "1" /\ s[2] \in { "0", "1", "2" }
    \/ Len(s) = 2 /\ s[1] = "0" /\ s[2] \in NonZeroDigits
    \/ Len(s) = 1 /\ s[1] \in NonZeroDigits

\* the regular expression of %d: 3[0-1]|[1-2]\d|0[1-9]|[1-9]| [1-9]
MatchesDay(s) ==
    \/ Len(s) = 2 /\ s[1] = "3" /\ s[2] \in { "0", "1" }
    \/ Len(s) = 2 /\ s[1] \in { "1", "2" } /\ IsDigit(s[2])
    \/ Len(s) = 2 /\ s[1] \in { "0", " " } /\ s[2] \in NonZeroDigits
    \/ Len(s) = 1 /\ s[1] \in NonZeroDigits

\* int(s) for what MatchesMonth or MatchesDay accepted
SmallInt(s) ==
    IF Len(s) = 1 THEN DigitVal(s[1])
    ELSE IF s[1] = " " THEN DigitVal(s[2])
    ELSE TwoDigits(s)

\* datetime.strptime(date_str, "%Y-%m-%d") returns: the string is four
\* digits, a month and a day as the expressions of %m and %d match them, with
\* nothing left over, and they name a day of the calendar
strptime_ymd(s) ==
    /\ Len(s) >= 8
    /\ AllDigits(SubSeq(s, 1, 4)) /\ s[5] = "-"
    /\ FourDigits(SubSeq(s, 1, 4)) >= 1
    /\ \E dash \in { 7, 8 } :
          /\ s[dash] = "-"
          /\ MatchesMonth(SubSeq(s, 6, dash - 1))
          /\ MatchesDay(SubSeq(s, dash + 1, Len(s)))
          /\ SmallInt(SubSeq(s, dash + 1, Len(s)))
                 <= DaysInMonth(FourDigits(SubSeq(s, 1, 4)), SmallInt(SubSeq(s, 6, dash - 1)))

\* MentionMindClient._is_valid_date(date_str)
_is_valid_date(date_str) == strptime_ymd(date_str)

\* dates a caller may pass to get_mentions
DateJan15 == << "2", "0", "2", "4", "-", "0", "1", "-", "1", "5" >>

DateOneDigit == << "2", "0", "2", "4", "-", "1", "-", "5" >>

DateSpaceDay == << "2", "0", "2", "4", "-", "0", "1", "-", " ", "5" >>

DateBadMonth == << "2", "0", "2", "4", "-", "1", "3", "-", "0", "1" >>

DateFeb30 == << "2", "0", "2", "4", "-", "0", "2", "-", "3", "0" >>

DateSlashes == << "2", "0", "2", "4", "/", "0", "1", "/", "1", "5" >>

\* the start_date and end_date a caller passes; None and "" are both << >>
ClientDates ==
    { None, DateJan15, DateOneDigit, DateSpaceDay, DateBadMonth, DateFeb30, DateSlashes,
      DateInvalid }

\* the pairs (start_date, end_date) of the calls of get_mentions
ClientDatePairs ==
    { << d, None >> : d \in ClientDates }
        \cup { << DateJan15, d >> : d \in { DateJan15, DateOneDigit, DateInvalid } }
        \cup { << None, DateInvalid >> }

\* the identifiers a caller passes; "" is the empty identifier
ClientIds == { "", "project1" }

\* the answers of the token endpoint to the client
ClientTokenResponses ==
    { NoResponse, TokenResponse(FALSE, 401, {}, "", 0),
      TokenResponse(FALSE, 200, { "token", "expiresIn" }, "test-token", 1),
      TokenResponse(FALSE, 200, {}, "", DefaultExpiresIn) }

\* an answer of the API: failed tells that session.request raised a
\* RequestException, mentions is the list under "mentions" of the body
ApiResponse(failed, status_code, list) ==
    [ failed |-> failed, status_code |-> status_code, mentions |-> list ]

ApiResponses ==
    { ApiResponse(TRUE, 0, << >>), ApiResponse(FALSE, 500, << >>),
      ApiResponse(FALSE, 200, << >>),
      ApiResponse(FALSE, 200, << Mention(InputKeys, TextAwesome, SourceTwitter, UrlExample,
                                         AuthorJane, DateNoon) >>) }

\* the requests _make_request sends: the token request if get_auth_headers
\* refreshes, and the API request if get_auth_headers returned
Requests(method, endpoint, woken, token_response, response) ==
    (IF NeedsRefresh(token_manager, woken)
     THEN << [ method |-> "POST", url |-> "/auth/token", at |-> woken ] >>
     ELSE << >>)
        \o (IF get_auth_headers(token_manager, token_response, woken).outcome.kind = "returned"
            THEN << [ method |-> method, url |-> endpoint, at |-> woken ] >>
            ELSE << >>)

\* how _make_request ends
_make_request(woken, token_response, response) ==
    IF get_auth_headers(token_manager, token_response, woken).outcome.kind = "raised"
    THEN get_auth_headers(token_manager, token_response, woken).outcome
    ELSE IF response.failed THEN Raised("APIError", "API request failed: error")
    ELSE IF response.status_code >= 400 THEN Raised("APIError", "API request failed: status")
    ELSE Returned(response.mentions)

\* self._make_request(method, endpoint, ...): the rate limiter, the token
\* manager and the session once it has ended
MakeRequest(method, endpoint, token_response, response) ==
    /\ clock + sleep_time(rate_limiter, clock) <= MaxTime
    /\ rate_limiter' = wait_if_needed(rate_limiter, clock)
    /\ \E woken \in clock + sleep_time(rate_limiter, clock) .. MaxTime :
          /\ sleep_time(rate_limiter, clock) = 0 => woken = clock
          /\ clock' = woken
          /\ proceeded' = Append(proceeded, woken)
          /\ token_manager' = get_auth_headers(token_manager, token_response, woken).self
          /\ sent' = sent \o Requests(method, endpoint, woken, token_response, response)

\* a call that raised before _make_request
NothingSent == UNCHANGED << clock, rate_limiter, token_manager, sent, proceeded >>

\* client = MentionMindClient(api_key, rate_limit_calls=1, rate_limit_period=MaxPeriod)
InitClient ==
    /\ op = "none"
    /\ passed = << >>
    /\ mentions = << >>
    /\ outcome = [ kind |-> "none", exc |-> "", msg |-> "", value |-> << >> ]
    /\ clock = 0
    /\ table = {}
    /\ rate_limiter = [ calls |-> 1, period |-> MaxPeriod, timestamps |-> << >> ]
    /\ token_manager = [ token |-> None, token_expiry |-> None ]
    /\ auth = << >>
    /\ sent = << >>
    /\ proceeded = << >>

\* client.get_mentions(start_date, end_date, process=process)
GetMentions ==
    /\ Len(proceeded) < MaxRequests
    /\ \E dates \in ClientDatePairs, process \in BOOLEAN :
          /\ op' = "get_mentions"
          /\ passed' = << dates[1], dates[2], process >>
          /\ IF dates[1] # << >> /\ ~_is_valid_date(dates[1])
             THEN /\ outcome' = Raised("ValidationError",
                                       "start_date must be in YYYY-MM-DD format")
                  /\ NothingSent
             ELSE IF dates[2] # << >> /\ ~_is_valid_date(dates[2])
             THEN /\ outcome' = Raised("ValidationError",
                                       "end_date must be in YYYY-MM-DD format")
                  /\ NothingSent
             ELSE \E token_response \in ClientTokenResponses, response \in ApiResponses :
                  /\ MakeRequest("GET", "/mention.php", token_response, response)
                  /\ outcome' =
                         IF _make_request(clock', token_response, response).kind = "raised"
                            \/ ~process
                         THEN _make_request(clock', token_response, response)
                         ELSE process_mentions(response.mentions,
                                               [ i \in DOMAIN response.mentions |-> clock' ]).outcome
    /\ UNCHANGED << mentions, table, auth >>

\* client.remove_mention(mention_id, project_id)
RemoveMention ==
    /\ Len(proceeded) < MaxRequests
    /\ \E mention_id \in ClientIds, project_id \in ClientIds :
          /\ op' = "remove_mention"
          /\ passed' = << mention_id, project_id >>
          /\ IF mention_id = ""
             THEN /\ outcome' = Raised("ValidationError", "mention_id is required")
                  /\ NothingSent
             ELSE \E token_response \in ClientTokenResponses, response \in ApiResponses :
                  /\ response.mentions = << >>
                  /\ MakeRequest("POST", "/mention.php/remove", token_response, response)
                  /\ outcome' =
                         IF _make_request(clock', token_response, response).kind = "raised"
                         THEN _make_request(clock', token_response, response)
                         ELSE Returned(TRUE)
    /\ UNCHANGED << mentions, table, auth >>

\* client.remove_all_mentions(project_id)
RemoveAllMentions ==
    /\ Len(proceeded) < MaxRequests
    /\ \E project_id \in ClientIds :
          /\ op' = "remove_all_mentions"
          /\ passed' = << project_id >>
          /\ IF project_id = ""
             THEN /\ outcome' = Raised("ValidationError", "project_id is required")
                  /\ NothingSent
             ELSE \E token_response \in ClientTokenResponses, response \in ApiResponses :
                  /\ response.mentions = << >>
                  /\ MakeRequest("POST", "/mention.php/remove_all", token_response, response)
                  /\ outcome' =
                         IF _make_request(clock', token_response, response).kind = "raised"
                         THEN _make_request(clock', token_response, response)
                         ELSE Returned(TRUE)
    /\ UNCHANGED << mentions, table, auth >>

NextClient == GetMentions \/ RemoveMention \/ RemoveAllMentions \/ SecondPasses

SpecClient == InitClient /\ [][NextClient]_vars

(***************************************************************************)
(* Properties of process_mention                                           *)
(***************************************************************************)
\* process_mention has been called and has ended
Called == op = "process_mention" /\ outcome.kind # "none"

\* the fixed order the contract lists the required fields in
ContractFieldOrder == << "text", "source", "url", "author", "date", "status" >>

ContractFields == Range(ContractFieldOrder)

\* the record has all six required fields
Complete(mention) == ContractFields \subseteq mention.keys

C2_LackingDateReportsDate ==
    (Called /\ "date" \notin passed[1].keys) =>
        outcome = Raised("ValidationError", "Missing required field: date")

\* the date parses as ISO-8601 once a Z is read as +00:00
DateParses(date) == fromisoformat(Replace(date, "Z", << "+","0","0",":","0","0" >>))

\* C3: process_mention raises nothing exactly when all six fields are present,
\* the url matches the absolute-URL pattern and the date parses as ISO-8601;
\* neither id nor the value of source ever causes a failure.
C3_SucceedsExactlyWhenValid ==
    Called =>
        (outcome.kind = "returned" <=>
            /\ Complete(passed[1])
            /\ url_pattern_match(passed[1].url)
            /\ DateParses(passed[1].date))

\* C4: a record that has id, text, date and source but no url, author or
\* status is accepted and returned with its text whitespace-collapsed and its
\* hashtags extracted; process_mentions on a list of such records returns one
\* result per record.
C4_AcceptsRecordWithoutUrlAuthorStatus ==
    /\ (Called /\ passed[1].keys = { "id", "text", "date", "source" }) =>
           /\ outcome.kind = "returned"
           /\ outcome.value[1].text = clean_text(passed[1].text)
           /\ "hashtags" \in outcome.value[1].keys
    /\ ( /\ op = "process_mentions"
         /\ outcome.kind # "none"
         /\ \A i \in DOMAIN passed : passed[i].keys = { "id", "text", "date", "source" } ) =>
           /\ outcome.kind = "returned"
           /\ Len(outcome.value) = Len(passed)

\* needle occurs in s as a substring
Contains(s, needle) ==
    \E i \in 1 .. (Len(s) - Len(needle) + 1) : SubSeq(s, i, i + Len(needle) - 1) = needle

\* the mention_type the contract derives from a source label, << >> where it
\* names none
ContractMentionType(source) ==
    IF Contains(Lower(source), << "t","w","i","t","t","e","r" >>) THEN << "t","w","e","e","t" >>
    ELSE IF Contains(Lower(source), << "n","e","w","s" >>) THEN << "n","e","w","s" >>
    ELSE IF Contains(Lower(source), << "r","e","v","i","e","w" >>) THEN << "r","e","v","i","e","w" >>
    ELSE << >>

\* C5: every record process_mention returns carries a mention_type derived
\* from source by case-insensitive containment: twitter gives tweet, else news
\* gives news, else review gives review.
C5_MentionTypeFromSource ==
    (Called /\ outcome.kind = "returned"
            /\ ContractMentionType(passed[1].source) # << >>) =>
        /\ "mention_type" \in outcome.value[1].keys
        /\ outcome.value[1].mention_type = ContractMentionType(passed[1].source)

\* C6: a url without a scheme is treated as https: an otherwise valid record
\* with url example.com/page is returned with url https://example.com/page.
C6_SchemelessUrlTreatedAsHttps ==
    ( /\ Called
      /\ Complete(passed[1])
      /\ passed[1].url = UrlNoScheme
      /\ DateParses(passed[1].date) ) =>
        /\ outcome.kind = "returned"
        /\ outcome.value[1].url = UrlExamplePage

\* the url is http:// or https:// followed by a host that is not empty
HasHost(url) ==
    \E p \in { UrlBareHttp, UrlBareHttps } :
        /\ StartsWith(url, p)
        /\ Len(url) > Len(p)
        /\ url[Len(p) + 1] \notin { "/", "?", "#" }

\* C7: every record process_mention returns has a url with a host that is not
\* empty: no accepted url yields http:// or http:///path.
C7_ReturnedUrlHasHost ==
    (Called /\ outcome.kind = "returned") => HasHost(outcome.value[1].url)

\* C8: with all six required fields present, a url that is a bare scheme,
\* http:// or https://, is refused with ValidationError 'Invalid URL format'.
C8_BareSchemeIsInvalidUrl ==
    ( /\ Called
      /\ Complete(passed[1])
      /\ passed[1].url \in { UrlBareHttp, UrlBareHttps } ) =>
        outcome = Raised("ValidationError", "Invalid URL format")

\* C8 witness: a complete record with url http:// was refused as an invalid url.
C8_Witness ==
    /\ Called
    /\ Complete(passed[1])
    /\ passed[1].url = UrlBareHttp
    /\ outcome.msg = "Invalid URL format"

\* _clean_url accepted the url of the record: the call got past it, so that
\* mentions[1].url is what _clean_url returned
UrlAccepted ==
    /\ Called
    /\ Complete(passed[1])
    /\ outcome.msg \notin { "Invalid URL format", "Invalid IPv6 URL" }

\* url up to its first ? or #
CutAtQueryOrFragment(url) ==
    IF Find(url, { "?", "#" }) = 0 THEN url ELSE Take(url, Find(url, { "?", "#" }))

\* url, which is http:// or https:// and so on, without the ;parameters of its
\* last path segment: if a / follows the host, what starts at the first ; after
\* the last / is dropped
CutAtParams(url) ==
    LET prefix == IF StartsWith(url, UrlBareHttps) THEN Len(UrlBareHttps) ELSE Len(UrlBareHttp)
        cut    == FindFrom(url, { ";" }, RFind(url, "/"))
    IN  IF RFind(url, "/") > prefix /\ cut # 0 THEN Take(url, cut) ELSE url

\* C9 as stated: when _clean_url accepts a url, its result is the input with
\* the query string and the fragment discarded and nothing else changed.
C9_OnlyQueryAndFragmentDropped ==
    UrlAccepted => mentions[1].url = CutAtQueryOrFragment(passed[1].url)

\* C9 as amended: when _clean_url accepts a url, its result is the input with
\* the tab, carriage return and newline characters removed, the query string
\* and the fragment discarded, and the ;parameters of the last path segment
\* discarded; nothing else is changed.
C9_QueryFragmentParamsDropped ==
    UrlAccepted =>
        mentions[1].url
            = CutAtParams(CutAtQueryOrFragment(Remove(passed[1].url, { "\t", "\r", "\n" })))

\* C9 witness: an accepted url with a query string came back without it.
C9_Witness ==
    /\ UrlAccepted
    /\ outcome.kind = "returned"
    /\ "?" \in Range(passed[1].url)
    /\ "?" \notin Range(outcome.value[1].url)
    /\ outcome.value[1].url # UrlBareHttp

\* the maximal run of word characters that follows position i of text
RunAfter(text, i) ==
    LET ends == { e \in (i + 1) .. Len(text) : \A k \in (i + 1) .. e : IsWordChar(text[k]) }
    IN  SubSeq(text, i + 1, CHOOSE e \in ends : \A f \in ends : f <= e)

\* the positions of text that hold marker and are followed by a word character
MarkerPositions(text, marker) ==
    { i \in DOMAIN text : text[i] = marker /\ i < Len(text) /\ IsWordChar(text[i + 1]) }

\* the runs of word characters that follow each marker of text, in order of
\* occurrence, duplicates kept
TokensAfter(text, marker) ==
    LET at == MarkerPositions(text, marker)
    IN  [ n \in 1 .. Cardinality(at) |->
            RunAfter(text, CHOOSE i \in at : Cardinality({ j \in at : j < i }) = n - 1) ]

\* C10: for every record returned, hashtags (mentioned_users) is exactly the
\* sequence of maximal word-character runs that follow each # (each @) in the
\* cleaned text, without the marker, case preserved, in order of occurrence,
\* duplicates retained.
C10_TokensAreRunsAfterMarkers ==
    (Called /\ outcome.kind = "returned") =>
        /\ outcome.value[1].text = clean_text(passed[1].text)
        /\ outcome.value[1].hashtags = TokensAfter(outcome.value[1].text, "#")
        /\ outcome.value[1].mentioned_users = TokensAfter(outcome.value[1].text, "@")

\* C10 witness: a text with the same one-letter hashtag twice came back with
\* the hashtag listed twice.
C10_Witness ==
    /\ Called
    /\ outcome.kind = "returned"
    /\ Len(outcome.value[1].hashtags) = 2
    /\ outcome.value[1].hashtags[1] = outcome.value[1].hashtags[2]
    /\ Len(outcome.value[1].hashtags[1]) = 1

\* _clean_text has run on the text of the record: the call got past the check
\* of the required fields, so that mentions[1].text is what _clean_text returned
TextCleaned == Called /\ Complete(passed[1])

\* C11: text cleaning is idempotent: cleaning a text that _clean_text returned
\* gives back that text.
C11_CleanTextIdempotent ==
    TextCleaned => clean_text(mentions[1].text) = mentions[1].text

\* C11 witness: a text that the cleaning changed was cleaned, and cleaning the
\* result changes nothing.
C11_Witness ==
    /\ TextCleaned
    /\ passed[1].text = TextSpaces
    /\ mentions[1].text # passed[1].text
    /\ clean_text(mentions[1].text) = mentions[1].text

\* the positions of s where a run of non-whitespace characters starts
WordStarts(s) ==
    { i \in DOMAIN s : s[i] \notin Whitespace /\ (i = 1 \/ s[i - 1] \in Whitespace) }

\* the run of non-whitespace characters of s that starts at i
WordAt(s, i) ==
    LET ends == { e \in i .. Len(s) : \A k \in i .. e : s[k] \notin Whitespace }
    IN  SubSeq(s, i, CHOOSE e \in ends : \A f \in ends : f <= e)

\* the non-whitespace tokens of s, in order
Words(s) ==
    LET at == WordStarts(s)
    IN  [ n \in 1 .. Cardinality(at) |->
            WordAt(s, CHOOSE i \in at : Cardinality({ j \in at : j < i }) = n - 1) ]

\* C12: the result of _clean_text has no leading or trailing whitespace, holds
\* no tab, newline or carriage return, never has two adjacent spaces, and its
\* sequence of non-whitespace tokens is that of the input.
C12_CleanTextShape ==
    TextCleaned =>
        /\ mentions[1].text # << >> =>
               /\ mentions[1].text[1] \notin Whitespace
               /\ mentions[1].text[Len(mentions[1].text)] \notin Whitespace
        /\ \A i \in DOMAIN mentions[1].text : mentions[1].text[i] \notin { "\t", "\n", "\r" }
        /\ \A i \in 1 .. (Len(mentions[1].text) - 1) :
               ~(mentions[1].text[i] = " " /\ mentions[1].text[i + 1] = " ")
        /\ Words(mentions[1].text) = Words(passed[1].text)

\* C12 witness: the text of the test, with runs of spaces, a newline and a
\* trailing carriage return, came back as its four words joined by one space.
C12_Witness ==
    /\ TextCleaned
    /\ passed[1].text = TextSpaces
    /\ Len(Words(mentions[1].text)) = 4
    /\ Len(mentions[1].text) = 28

\* the call returned a record
Succeeded == Called /\ outcome.kind = "returned"

\* C13: every record that process_mention returns has a non-empty text.
C13_ReturnedTextNonEmpty ==
    Succeeded => outcome.value[1].text # << >>

\* C14: the search_text of every returned record holds no uppercase character.
C14_SearchTextLowercase ==
    Succeeded =>
        \A i \in DOMAIN outcome.value[1].search_text :
            ~IsUpper(outcome.value[1].search_text[i])

\* C15: when process_mention raises ValidationError the caller's record is as
\* it was passed in.
C15_FailureLeavesRecordUntouched ==
    (Called /\ outcome.exc = "ValidationError") => mentions[1] = passed[1]

\* C16: after a successful process_mention the caller's record is as it was
\* passed in: the output is a fresh record.
C16_SuccessLeavesInputUntouched ==
    Succeeded => mentions[1] = passed[1]

\* C18: every record that process_mention returns has language "unknown",
\* sentiment "neutral" and a processed_at field, whatever language or sentiment
\* the input carried.
C18_PlaceholdersOverwritten ==
    Succeeded =>
        /\ Has(outcome.value[1], "language")
        /\ outcome.value[1].language = "unknown"
        /\ Has(outcome.value[1], "sentiment")
        /\ outcome.value[1].sentiment = "neutral"
        /\ Has(outcome.value[1], "processed_at")
        /\ outcome.value[1].processed_at \in Clock

\* C18 witness: a record that came in with language "en" and sentiment
\* "positive" was returned with the two placeholders.
C18_Witness ==
    /\ Succeeded
    /\ Has(passed[1], "language")
    /\ passed[1].language = "en"
    /\ passed[1].sentiment = "positive"
    /\ outcome.value[1].language = "unknown"
    /\ outcome.value[1].sentiment = "neutral"

\* process_mentions was called on a list whose records are all valid: each one
\* passes process_mention on its own
BatchOfValid ==
    /\ op = "process_mentions"
    /\ outcome.kind # "none"
    /\ \A i \in DOMAIN passed : \A now \in Clock :
           process_mention(passed[i], now).outcome.kind = "returned"

\* C17: process_mentions on a list of valid records returns a list of the same
\* length whose i-th element is what process_mention gives for the i-th input,
\* with the hashtags of that input's own text.
C17_BatchIsElementwise ==
    BatchOfValid =>
        /\ outcome.kind = "returned"
        /\ Len(outcome.value) = Len(passed)
        /\ \A i \in DOMAIN passed :
               /\ \E now \in Clock : outcome.value[i] = process_mention(passed[i], now).mention
               /\ outcome.value[i].hashtags = extract_hashtags(clean_text(passed[i].text))

\* C17 witness: a list of two valid records with different hashtags was
\* processed, and the two results carry different hashtags.
C17_Witness ==
    /\ BatchOfValid
    /\ Len(passed) = 2
    /\ outcome.kind = "returned"
    /\ Len(outcome.value) = 2
    /\ outcome.value[1].hashtags # << >>
    /\ outcome.value[2].hashtags # << >>
    /\ outcome.value[1].hashtags # outcome.value[2].hashtags

\* a CSV import has ended
Imported == op \in { "process_reddit_csv", "process_twitter_csv" } /\ outcome.kind # "none"

\* the record an import builds from a row, datetime.now() answering idnow
RowMention(row, idnow) ==
    IF op = "process_reddit_csv" THEN RedditMention(row) ELSE TwitterMention(row, idnow)

\* result is a record process_mention may return for the row: the one it
\* returns at the instant result gives as processed_at
IsResultOf(result, row) ==
    /\ result.processed_at \in Clock
    /\ \E idnow \in Clock :
           result = process_mention(RowMention(row, idnow), result.processed_at).mention

\* the positions of the rows that process_mention accepts; the clock has no
\* part in what it accepts
GoodRows ==
    { i \in DOMAIN passed : process_mention(RowMention(passed[i], 1), 1).outcome.kind = "returned" }

\* the n-th smallest element of S
NthOf(S, n) == CHOOSE i \in S : Cardinality({ j \in S : j < i }) = n - 1

\* the list is made of the results of the rows at the positions good, in order
ResultsOfRows(list, good) ==
    /\ Len(list) = Cardinality(good)
    /\ \A n \in DOMAIN list : IsResultOf(list[n], passed[NthOf(good, n)])

\* C19: a CSV import returns, whatever rows fail, and the list it returns is
\* the successfully processed rows and only them, in the order of the file.
C19_ImportSkipsFailingRows ==
    Imported => (outcome.kind = "returned" /\ ResultsOfRows(outcome.value, GoodRows))

\* C19 witness: a file of three rows whose second row fails was imported, and
\* the first and the third row are the result.
C19_Witness ==
    /\ Imported
    /\ Len(passed) = 3
    /\ GoodRows = { 1, 3 }
    /\ passed[1].title # passed[3].title
    /\ Len(outcome.value) = 2
    /\ outcome.value[1].text = clean_text(RowText(passed[1]))
    /\ outcome.value[2].text = clean_text(RowText(passed[3]))

\* sanitize_text has been called on a string and has ended
Sanitized == op = "sanitize_text" /\ outcome.kind # "none" /\ ~passed[1].isNone

\* the code point is that of a printable ASCII character
IsPrintable(c) == c \in 32 .. 126

\* C20 as stated: sanitize_text never raises, its output holds only printable
\* ASCII characters, and the output is as long as the input.
C20_OutputPrintableAscii ==
    Sanitized =>
        /\ outcome.kind = "returned"
        /\ Len(outcome.value[1]) = Len(passed[1].chars)
        /\ \A i \in DOMAIN outcome.value[1] : IsPrintable(outcome.value[1][i])

\* C20 amended: sanitize_text never raises, its output holds only ASCII
\* characters and is as long as the input: every non-ASCII character is
\* replaced by "?" and every ASCII character, control characters included, is
\* kept.
C20_NonAsciiReplaced ==
    Sanitized =>
        /\ outcome.kind = "returned"
        /\ Len(outcome.value[1]) = Len(passed[1].chars)
        /\ \A i \in DOMAIN outcome.value[1] :
               /\ outcome.value[1][i] \in 0 .. 127
               /\ passed[1].chars[i] \in 0 .. 127 => outcome.value[1][i] = passed[1].chars[i]
               /\ passed[1].chars[i] \notin 0 .. 127 => outcome.value[1][i] = 63

\* C20 witness: a string with a control character, a letter and a non-ASCII
\* character was sanitized; the first two came back, the third as "?".
C20_Witness ==
    /\ Sanitized
    /\ passed[1].chars = << 9, 97, 233 >>
    /\ outcome.value[1] = << 9, 97, 63 >>

\* C25: failures are reported in a fixed precedence: a missing field first;
\* with all six fields, a url that does not match the pattern as 'Invalid URL
\* format' whatever the date; with all six fields and a url that matches, a
\* date that does not parse as 'Invalid date format'.
C25_FailurePrecedence ==
    Called =>
        /\ ~Complete(passed[1]) =>
               /\ outcome.exc = "ValidationError"
               /\ outcome.msg \in { "Missing required field: " \o f : f \in ContractFields }
        /\ (Complete(passed[1]) /\ ~url_pattern_match(passed[1].url)) =>
               outcome = Raised("ValidationError", "Invalid URL format")
        /\ (Complete(passed[1]) /\ url_pattern_match(passed[1].url) /\ ~DateParses(passed[1].date)) =>
               outcome = Raised("ValidationError", "Invalid date format")

\* process_mentions was called on a list with a record that process_mention
\* refuses
BatchWithInvalid ==
    /\ op = "process_mentions"
    /\ outcome.kind # "none"
    /\ \E i \in DOMAIN passed : process_mention(passed[i], 1).outcome.kind = "raised"

\* the position of the first record that process_mention refuses
FirstInvalid ==
    CHOOSE i \in DOMAIN passed :
        /\ process_mention(passed[i], 1).outcome.kind = "raised"
        /\ \A j \in 1 .. (i - 1) : process_mention(passed[j], 1).outcome.kind = "returned"

\* C26: process_mentions on a list with an invalid record raises the
\* ValidationError of the first invalid record and returns no list; the records
\* after that one are as they were passed.
C26_BatchRaisesFirstFailure ==
    BatchWithInvalid =>
        /\ outcome.kind = "raised"
        /\ outcome.exc = "ValidationError"
        /\ outcome.msg = process_mention(passed[FirstInvalid], 1).outcome.msg
        /\ outcome.value = << >>
        /\ \A k \in (FirstInvalid + 1) .. Len(passed) : mentions[k] = passed[k]

\* C30: a record that process_mention returned is accepted when it is passed
\* to process_mention again, and comes back with the same text, url, date,
\* hashtags, mentioned_users and search_text.
C30_ReprocessingStable ==
    [][ProcessMentionAgain =>
          /\ outcome'.kind = "returned"
          /\ mentions'[1].text = mentions[1].text
          /\ mentions'[1].url = mentions[1].url
          /\ mentions'[1].date = mentions[1].date
          /\ mentions'[1].hashtags = mentions[1].hashtags
          /\ mentions'[1].mentioned_users = mentions[1].mentioned_users
          /\ mentions'[1].search_text = mentions[1].search_text]_vars

\* batch_store_mentions has ended
BatchStored == op = "batch_store_mentions" /\ outcome.kind # "none"

\* no write failed: every mention could be turned into an item and every
\* request to the table went through
NoWriteFailed ==
    /\ \A i \in DOMAIN passed : "content" \in passed[i].keys
    /\ \A r \in DOMAIN sent : sent[r].ok

\* the ids of the items of the requests, request after request
RECURSIVE SentIds(_)
SentIds(requests) ==
    IF requests = << >> THEN << >>
    ELSE [ k \in DOMAIN Head(requests).items |-> Head(requests).items[k].mention_id ]
             \o SentIds(Tail(requests))

\* C21: batch_store_mentions writes its input in consecutive groups of at most
\* 25, in order; when no write fails it returns the whole input, in order, as
\* successful and an empty failed list.
C21_BatchesOfTwentyFive ==
    (BatchStored /\ NoWriteFailed) =>
        /\ outcome.value = << passed, << >> >>
        /\ \A r \in DOMAIN sent : Len(sent[r].items) \in 1 .. 25
        /\ SentIds(sent) = [ i \in DOMAIN passed |-> passed[i].mention_id ]
        /\ { x.mention_id : x \in table } = { passed[i].mention_id : i \in DOMAIN passed }

\* C21 witness: a list of 30 mentions was stored in a request of 25 items and
\* a request of 5.
C21_Witness ==
    /\ BatchStored
    /\ NoWriteFailed
    /\ Len(passed) = 30
    /\ Len(sent) = 2
    /\ Len(sent[1].items) = 25
    /\ Len(sent[2].items) = 5
    /\ Len(outcome.value[1]) = 30

\* the mention is in the list
InList(mention, list) == \E i \in DOMAIN list : list[i] = mention

\* the table holds the item of the mention
Written(mention) ==
    \E x \in table : x.mention_id = mention.mention_id /\ x.timestamp = mention.timestamp

\* C29: whatever fails, every input mention is in exactly one of
\* successful_items and failed_items, every mention of successful_items has
\* been written to the table and no mention of failed_items has.
C29_BatchReportIsTruthful ==
    BatchStored =>
        /\ \A i \in DOMAIN passed :
               InList(passed[i], outcome.value[1]) # InList(passed[i], outcome.value[2])
        /\ \A i \in DOMAIN outcome.value[1] : Written(outcome.value[1][i])
        /\ \A i \in DOMAIN outcome.value[2] : ~Written(outcome.value[2][i])

\* the step is a call of op on the key: a store or a delete that returned
\* True, or a get
ActsOn(key) == passed' # << >> /\ SameKey(passed'[1], key)

\* a store_mention that returns True leaves the mention's item in the table
StoreTakesEffect ==
    (op' = "store_mention" /\ outcome'.value = << TRUE >>) =>
        \E x \in GetItem(table', passed'[1]) :
            /\ x.content = passed'[1].content
            /\ x.source = passed'[1].source

\* a delete_mention that returns True leaves no item with the key
DeleteTakesEffect ==
    (op' = "delete_mention" /\ outcome'.value = << TRUE >>) => GetItem(table', passed'[1]) = {}

\* get_mention returns the item of the key, None when there is none
GetReturnsItem ==
    op' = "get_mention" => outcome'.value = ItemOrNone(GetItem(table, passed'[1]))

\* get_mention returns the item of the key unless its read fails, and then None
GetReturnsItemUnlessReadFails ==
    op' = "get_mention" =>
        \/ outcome'.value = ItemOrNone(GetItem(table, passed'[1]))
        \/ outcome'.msg = "Error retrieving mention" /\ outcome'.value = << >>

\* only a store or a delete with the key changes what the table holds for it
OnlyOwnKeyChanges ==
    \A key \in StoredKeys :
        GetItem(table', key) # GetItem(table, key) =>
            (op' \in { "store_mention", "delete_mention" } /\ ActsOn(key))

\* the same, or the item's ttl has passed and the table has expired the item
OnlyOwnKeyChangesOrExpires ==
    \A key \in StoredKeys :
        GetItem(table', key) # GetItem(table, key) =>
            \/ op' \in { "store_mention", "delete_mention" } /\ ActsOn(key)
            \/ /\ op' = "expire_item"
               /\ GetItem(table', key) = {}
               /\ \A x \in GetItem(table, key) : x.ttl <= clock

\* C22 as stated: after a store_mention that returned True, get_mention with
\* the key returns the item until a delete_mention with that key; after a
\* delete_mention that returned True it returns None until the next store with
\* the key; a call on one key never changes what another key holds.
C22_StoreGetDelete ==
    [][StoreTakesEffect /\ DeleteTakesEffect /\ GetReturnsItem /\ OnlyOwnKeyChanges]_vars

\* C22 amended: the same, until a delete_mention with that key or the expiry
\* of the item 30 days after it was stored, and for a get_mention whose read
\* of the table succeeds (a failed read also gives None).
C22_StoreGetDeleteOrExpiry ==
    [][StoreTakesEffect /\ DeleteTakesEffect /\ GetReturnsItemUnlessReadFails
         /\ OnlyOwnKeyChangesOrExpires]_vars

\* C22 witness: get_mention returned the item stored last for its key, with
\* the content of the second store, while the item of another timestamp of
\* the same mention_id is in the table.
C22_Witness ==
    /\ op = "get_mention"
    /\ outcome.msg = ""
    /\ outcome.value # << >>
    /\ outcome.value = ItemOrNone(GetItem(table, passed[1]))
    /\ passed[1] = [ mention_id |-> 1, timestamp |-> 1 ]
    /\ \E x \in table : x.mention_id = 1 /\ x.timestamp = 1 /\ x.content = "Content to delete"
    /\ \E x \in table : x.mention_id = 1 /\ x.timestamp = 2

\* the response is one get_token cannot take a token from: a status other
\* than 200, or a body that lacks access_token or expires_in
TokenRefused(response) ==
    /\ ~response.failed
    /\ \/ response.status_code # 200
       \/ ~({ "access_token", "expires_in" } \subseteq response.keys)

\* a token request of the run was answered with a token
TokenObtained(requests) ==
    \E i \in DOMAIN requests :
        ~requests[i].response.failed /\ ~TokenRefused(requests[i].response)

RefreshFailed(response) ==
    \/ response.failed
    \/ response.status_code >= 400
    \/ "token" \notin response.keys

\* get_auth_headers refreshes exactly when no token is held or the clock has
\* reached token_expiry
RefreshesWhenDue ==
    (sent' # sent) <=>
        \/ token_manager.token = None
        \/ token_manager.token_expiry # None /\ clock >= token_manager.token_expiry[1]

\* the header get_auth_headers returned carries a token that is held and not
\* expired
HeaderIsFresh ==
    outcome'.kind = "returned" =>
        /\ token_manager'.token # None
        /\ outcome'.value = << "Bearer " \o token_manager'.token[1] >>
        /\ clock < token_manager'.token_expiry[1]

\* C28: get_auth_headers sends a refresh request exactly when no token is
\* held or the clock has reached token_expiry; a refresh that fails raises
\* AuthError and leaves token and token_expiry as they were; a header that
\* is returned carries a token that is held and not expired.
C28_RefreshWhenDueOrAuthError ==
    [][ op' = "get_auth_headers" =>
            /\ RefreshesWhenDue
            /\ (sent' # sent /\ RefreshFailed(passed'[1])) =>
                   /\ outcome'.kind = "raised"
                   /\ outcome'.exc = "AuthError"
                   /\ token_manager' = token_manager
            /\ HeaderIsFresh ]_vars

\* what holds of get_auth_headers: as C28, except that a refresh answered
\* without a token raises KeyError
C28_RefreshWhenDueOrRaises ==
    [][ op' = "get_auth_headers" =>
            /\ RefreshesWhenDue
            /\ (sent' # sent /\ RefreshFailed(passed'[1])) =>
                   /\ outcome'.kind = "raised"
                   /\ outcome'.exc =
                          IF ~passed'[1].failed /\ passed'[1].status_code < 400
                          THEN "KeyError" ELSE "AuthError"
                   /\ token_manager' = token_manager
            /\ HeaderIsFresh ]_vars

\* the calls that proceeded in the window of length period that starts at from
InWindow(from, period) ==
    { i \in DOMAIN proceeded : from <= proceeded[i] /\ proceeded[i] < from + period }

\* C27: in every window of length period, at most calls calls of
\* wait_if_needed proceed, a call counted at the time it returns.
C27_AtMostCallsPerPeriod ==
    op = "wait_if_needed" =>
        \A from \in 0 .. MaxTime :
            Cardinality(InWindow(from, rate_limiter.period)) <= rate_limiter.calls

\* the date is given and is not of the form YYYY-MM-DD: four digits, two
\* digits and two digits with hyphens between them
Malformed(date_str) ==
    /\ date_str # << >>
    /\ ~(/\ Len(date_str) = 10
         /\ date_str[5] = "-" /\ date_str[8] = "-"
         /\ AllDigits(SubSeq(date_str, 1, 4))
         /\ AllDigits(SubSeq(date_str, 6, 7))
         /\ AllDigits(SubSeq(date_str, 9, 10)))

\* the call that has just been made was given an argument the client rejects
InvalidArguments ==
    \/ op' = "remove_all_mentions" /\ passed'[1] = ""
    \/ op' = "remove_mention" /\ passed'[1] = ""
    \/ op' = "get_mentions" /\ (Malformed(passed'[1]) \/ Malformed(passed'[2]))

\* the call raised a ValidationError and did nothing else
RaisedBeforeAnythingElse ==
    /\ outcome'.kind = "raised"
    /\ outcome'.exc = "ValidationError"
    /\ UNCHANGED << sent, token_manager, rate_limiter, proceeded, clock >>

\* C23: remove_all_mentions with an empty project_id, remove_mention with an
\* empty mention_id and get_mentions with a malformed start_date or end_date
\* raise ValidationError before anything else: no request is sent, no token
\* is fetched or refreshed, no rate-limiter timestamp is recorded.
C23_ValidationBeforeAnythingElse ==
    [][ InvalidArguments => RaisedBeforeAnythingElse ]_vars

\* what holds of the three calls: an empty identifier and a date that
\* _is_valid_date rejects raise ValidationError before anything else, and a
\* ValidationError of the client is never raised after a request
C23_RejectedBeforeAnythingElse ==
    [][ /\ (\/ op' \in { "remove_all_mentions", "remove_mention" } /\ passed'[1] = ""
            \/ /\ op' = "get_mentions"
               /\ \E i \in { 1, 2 } : passed'[i] # << >> /\ ~_is_valid_date(passed'[i]))
               => RaisedBeforeAnythingElse
        /\ (/\ op' \in { "remove_all_mentions", "remove_mention", "get_mentions" }
            /\ outcome'.exc = "ValidationError"
            /\ outcome'.msg # "Invalid URL format")
               => RaisedBeforeAnythingElse ]_vars
====
